---- MODULE Spec2Model ----
(***************************************************************************)
(* A model of the rcore kernel and its easy-fs library: the block cache,   *)
(* the on-disk bitmap, the physical frame allocator, the mmap/munmap       *)
(* system calls over the SV39 page table, the per-process time accounting  *)
(* of the system-call path, the task manager's sys_taskinfo, and the inode *)
(* layer of easy-fs (create, find, read_at, write_at, linkat, unlink).     *)
(***************************************************************************)
EXTENDS Integers, Sequences, FiniteSets, TLC

VARIABLES
    queue,      \* BlockCacheManager.queue: sequence of block-cache entries
    handles,    \* block_id -> number of Arc clones callers still hold
    device,     \* the block device: block_id -> block content
    shadow,     \* ghost: block_id -> the content last stored through the cache
    bitmap,     \* the bitmap's blocks: block -> 64-bit lane -> set of set bits
    allocs,     \* number of Bitmap::alloc calls made so far
    fa,         \* FRAME_ALLOCATOR: [current, end, recycled]
    live,       \* ppn -> number of live FrameTrackers that hold it
    pages,      \* physical memory: ppn -> content of the page, 0 = all zeroes
    memory_set, \* the current task's MemorySet: [page_table, areas]
    ptes,       \* page-table memory: <<table ppn, index>> -> PTE bits
    mmaps,      \* number of sys_mmap calls made so far
    trap_cx_ppn, \* the current task's TaskControlBlockInner.trap_cx_ppn
    kernel_space, \* KERNEL_SPACE: the kernel's MemorySet
    clock,      \* the machine timer in milliseconds (get_time_ms)
    TIMER,      \* syscall/mod.rs: static mut TIMER
    tcbs,       \* pid -> the process's TaskControlBlockInner and its position
    running,    \* the pid current_task() returns
    ready_queue, \* the scheduler's ready FIFO of pids
    own,        \* ghost: pid -> time the process itself spent in each mode
    tasks,      \* TaskManagerInner.tasks: the task_status of every task
    current_task, \* TaskManagerInner.current_task
    info,       \* the caller's TaskInfo structure in user memory
    inode_bitmap, \* EasyFileSystem.inode_bitmap: the set bits
    data_bitmap, \* EasyFileSystem.data_bitmap: the set bits
    disk_inodes, \* the inode area: <<block_id, block_offset>> -> DiskInode
    blocks,     \* the data area: block_id -> offset -> byte, zero bytes left out
    exist,      \* ghost: the names created or linked and not unlinked since
    fd_table,   \* the current task's fd_table: fd + 1 -> {} or {file}
    fd_name_map, \* the current task's fd_name_map: fd -> the path it was opened by
    procs,      \* pid -> the process's TaskControlBlockInner fields
    pid_allocator, \* PID_ALLOCATOR: current and the recycled pids
    CNT,        \* 05hanoi: the static move counter
    hstack,     \* 05hanoi: the calls of hanoi still to run, next one first
    hlevel,     \* 05hanoi: the level main asked for
    hexit,      \* 05hanoi: main's exit code, {} until main returns
    ftest,      \* frame_allocator_test: its position and its Vec of trackers
    panicked,   \* the kernel (or library caller) has panicked
    last        \* ghost: a record describing the last operation

cacheVars == <<queue, handles, device, shadow>>
bitmapVars == <<bitmap, allocs>>
frameVars == <<fa, live, pages>>
mmVars == <<memory_set, ptes, mmaps, trap_cx_ppn, kernel_space>>
timeVars == <<clock, TIMER, tcbs, running, ready_queue, own>>
taskVars == <<tasks, current_task, info>>
fsVars == <<inode_bitmap, data_bitmap, disk_inodes, blocks, exist>>
fdVars == <<fd_table, fd_name_map>>
procVars == <<procs, pid_allocator>>
hanoiVars == <<CNT, hstack, hlevel, hexit>>
ftestVars == <<ftest>>
vars == <<cacheVars, bitmapVars, frameVars, mmVars, timeVars, taskVars, fsVars, fdVars,
          procVars, hanoiVars, ftestVars, panicked, last>>

\* What the operations of one component leave alone, and where the other
\* components rest while one is exercised.
OnlyCache == UNCHANGED <<bitmapVars, frameVars, mmVars, timeVars, taskVars, fsVars, fdVars, procVars, hanoiVars, ftestVars>>
OnlyBitmap == UNCHANGED <<cacheVars, frameVars, mmVars, timeVars, taskVars, fsVars, fdVars, procVars, hanoiVars, ftestVars>>
OnlyFrame == UNCHANGED <<cacheVars, bitmapVars, mmVars, timeVars, taskVars, fsVars, fdVars, procVars, hanoiVars, ftestVars>>
OnlyMM == UNCHANGED <<cacheVars, bitmapVars, timeVars, taskVars, fsVars, fdVars, procVars, hanoiVars, ftestVars>>
OnlyTime == UNCHANGED <<cacheVars, bitmapVars, frameVars, mmVars, taskVars, fsVars, fdVars, procVars, hanoiVars, ftestVars>>
OnlyTask == UNCHANGED <<cacheVars, bitmapVars, frameVars, mmVars, timeVars, fsVars, fdVars, procVars, hanoiVars, ftestVars>>
OnlyFs == UNCHANGED <<cacheVars, bitmapVars, frameVars, mmVars, timeVars, taskVars, fdVars, procVars, hanoiVars, ftestVars>>
OnlyFd == UNCHANGED <<cacheVars, bitmapVars, frameVars, mmVars, timeVars, taskVars, procVars, hanoiVars, ftestVars>>
OnlyProc == UNCHANGED <<cacheVars, bitmapVars, frameVars, mmVars, timeVars, taskVars, fsVars, fdVars, hanoiVars, ftestVars>>
OnlyFrameTest == UNCHANGED <<cacheVars, bitmapVars, mmVars, timeVars, taskVars, fsVars, fdVars, procVars, hanoiVars>>
OnlyHanoi == UNCHANGED <<cacheVars, bitmapVars, frameVars, mmVars, timeVars, taskVars, fsVars, fdVars, procVars, ftestVars>>
IdleCache ==
    /\ queue = <<>>
    /\ handles = <<>>
    /\ device = <<>>
    /\ shadow = <<>>
IdleBitmap ==
    /\ bitmap = <<>>
    /\ allocs = 0
IdleFrame ==
    /\ fa = <<>>
    /\ live = <<>>
    /\ pages = <<>>
IdleMM ==
    /\ memory_set = <<>>
    /\ ptes = <<>>
    /\ mmaps = 0
    /\ trap_cx_ppn = 0
    /\ kernel_space = <<>>
IdleTime ==
    /\ clock = 0
    /\ TIMER = 0
    /\ tcbs = <<>>
    /\ running = 0
    /\ ready_queue = <<>>
    /\ own = <<>>
IdleTask ==
    /\ tasks = <<>>
    /\ current_task = 0
    /\ info = <<>>
IdleProc == procs = <<>> /\ pid_allocator = <<>>
IdleHanoi == CNT = 0 /\ hstack = <<>> /\ hlevel = 0 /\ hexit = {}
IdleFTest == ftest = [phase |-> "idle"]
IdleFd ==
    /\ fd_table = <<>>
    /\ fd_name_map = <<>>
IdleFs ==
    /\ inode_bitmap = {}
    /\ data_bitmap = {}
    /\ disk_inodes = <<>>
    /\ blocks = <<>>
    /\ exist = {}

(***************************************************************************)
(* Block cache (easy-fs/src/block_cache.rs)                                *)
(***************************************************************************)

BLOCK_CACHE_SIZE == 16

\* Blocks beyond the cache capacity that exist on the device.
ExtraBlocks == 1
\* Largest content value a block takes in the model (a block's 512 bytes
\* are abstracted to one value).
MaxVal == 1
\* Most Arc clones the callers of the model hold at one time, over the
\* blocks they ask for.
MaxHeld == 3

NumBlocks == BLOCK_CACHE_SIZE + ExtraBlocks
Blocks == 0 .. (NumBlocks - 1)
Vals == 0 .. MaxVal

\* Entries a running system has already loaded when the model starts.
Warm == BLOCK_CACHE_SIZE - 1
\* The block ids the callers of the model ask for: two of the blocks loaded
\* first and every block not loaded at the start.
ReqBlocks == {0, 1} \cup (Warm .. (NumBlocks - 1))
\* The block ids the callers of the model modify.
ModBlocks == {0, Warm}

None == "None"

\* BlockCache::new: read the block from the device, clean.
BlockCacheNew(block_id, dev) ==
    [block_id |-> block_id, cache |-> dev[block_id], modified |-> FALSE]

\* BlockCache::get_mut / modify: store through the mutable view, mark dirty.
BlockCacheModify(e, v) == [e EXCEPT !.cache = v, !.modified = TRUE]

SyncSkipsWrite(e, dev) ==
    [entry |-> [e EXCEPT !.modified = FALSE], dev |-> dev, wrote |-> FALSE]

SyncAlwaysWrites(e, dev) ==
    [entry |-> [e EXCEPT !.modified = FALSE],
     dev   |-> [dev EXCEPT ![e.block_id] = e.cache],
     wrote |-> TRUE]

\* BlockCache::sync: write the block back if it is dirty.
BlockCacheSync(e, dev) ==
    IF e.modified
    THEN [entry |-> [e EXCEPT !.modified = FALSE],
          dev   |-> [dev EXCEPT ![e.block_id] = e.cache],
          wrote |-> TRUE]
    ELSE [entry |-> e, dev |-> dev, wrote |-> FALSE]

\* Arc::strong_count of an entry: the queue's own Arc plus the callers'.
StrongCount(h, block_id) == 1 + h[block_id]

FindBlockNever(q, block_id) == 0

\* queue.iter().find(|pair| pair.0 == block_id): index of the entry, 0 if none.
FindBlock(q, block_id) ==
    IF \E i \in 1..Len(q) : q[i].block_id = block_id
    THEN CHOOSE i \in 1..Len(q) :
            /\ q[i].block_id = block_id
            /\ \A j \in 1..(i-1) : q[j].block_id # block_id
    ELSE 0

RECURSIVE ScanVictim(_, _, _)
ScanVictim(q, h, i) ==
    IF i > Len(q) THEN 0
    ELSE IF StrongCount(h, q[i].block_id) = 1 THEN i
    ELSE ScanVictim(q, h, i + 1)

FindVictimFront(q, h) == IF Len(q) > 0 THEN 1 ELSE 0

RECURSIVE ScanVictimBack(_, _, _)
ScanVictimBack(q, h, i) ==
    IF i < 1 THEN 0
    ELSE IF StrongCount(h, q[i].block_id) = 1 THEN i
    ELSE ScanVictimBack(q, h, i - 1)

FindVictimLast(q, h) == ScanVictimBack(q, h, Len(q))

\* queue.iter().enumerate().find(|(_, pair)| Arc::strong_count(&pair.1) == 1):
\* index of the first entry only the queue refers to, 0 if none.
FindVictim(q, h) == ScanVictim(q, h, 1)

\* queue.drain(idx..=idx)
Drain(q, idx) == SubSeq(q, 1, idx - 1) \o SubSeq(q, idx + 1, Len(q))

\* BlockCacheManager::get_block_cache. The result says whether the call
\* panicked, the queue and device afterwards, and what happened: a hit, and
\* on a miss the block evicted (its entry is dropped, which syncs it).
GetBlockCache(q, h, dev, block_id) ==
    LET found == FindBlock(q, block_id) IN
    IF found # 0
    THEN [panic |-> FALSE, q |-> q, dev |-> dev, hit |-> TRUE,
          evicted |-> {}, written |-> {}]
    ELSE IF Len(q) = BLOCK_CACHE_SIZE
    THEN LET idx == FindVictim(q, h) IN
         IF idx # 0
         THEN LET s == BlockCacheSync(q[idx], dev) IN
              [panic |-> FALSE,
               q |-> Append(Drain(q, idx), BlockCacheNew(block_id, s.dev)),
               dev |-> s.dev, hit |-> FALSE, evicted |-> {q[idx].block_id},
               written |-> IF s.wrote THEN {q[idx].block_id} ELSE {}]
         ELSE [panic |-> TRUE, q |-> q, dev |-> dev, hit |-> FALSE,
               evicted |-> {}, written |-> {}]
    ELSE [panic |-> FALSE, q |-> Append(q, BlockCacheNew(block_id, dev)),
          dev |-> dev, hit |-> FALSE, evicted |-> {}, written |-> {}]

RECURSIVE SyncFrom(_, _, _, _)
\* block_cache_sync_all: sync every entry of the queue, front to back.
SyncFrom(q, dev, i, written) ==
    IF i > Len(q) THEN [q |-> q, dev |-> dev, written |-> written]
    ELSE LET s == BlockCacheSync(q[i], dev) IN
         SyncFrom([q EXCEPT ![i] = s.entry], s.dev, i + 1,
                  IF s.wrote THEN written \cup {q[i].block_id} ELSE written)

RECURSIVE HeldTotal(_, _)
HeldTotal(h, S) ==
    IF S = {} THEN 0
    ELSE LET b == CHOOSE x \in S : TRUE IN h[b] + HeldTotal(h, S \ {b})

\* A warm queue: blocks 0 .. n-1 loaded in order, all clean.
WarmQueue(n, dev) == [i \in 1..n |-> BlockCacheNew(i - 1, dev)]

\* get_block_cache(block_id, device): the caller keeps the returned Arc
\* (keep) or uses it in one expression and drops it at once.
GetBlockCacheOp(block_id, keep) ==
    /\ ~panicked
    /\ OnlyCache
    /\ keep => HeldTotal(handles, ReqBlocks) < MaxHeld
    /\ LET r == GetBlockCache(queue, handles, device, block_id) IN
       /\ queue' = r.q
       /\ device' = r.dev
       /\ panicked' = r.panic
       /\ handles' = IF keep /\ ~r.panic
                     THEN [handles EXCEPT ![block_id] = @ + 1]
                     ELSE handles
       /\ last' = [op |-> "get", block_id |-> block_id, hit |-> r.hit,
                   evicted |-> r.evicted, written |-> r.written,
                   panic |-> r.panic, value |-> {}]
    /\ UNCHANGED shadow

\* A caller drops an Arc it kept.
DropHandle(block_id) ==
    /\ ~panicked
    /\ OnlyCache
    /\ handles[block_id] > 0
    /\ handles' = [handles EXCEPT ![block_id] = @ - 1]
    /\ last' = [op |-> "drop", block_id |-> block_id, hit |-> FALSE,
                evicted |-> {}, written |-> {}, panic |-> FALSE,
                value |-> {}]
    /\ UNCHANGED <<queue, device, shadow, panicked>>

\* get_block_cache(block_id, device).lock().modify(0, |x| *x = v)
ModifyBlock(block_id, v) ==
    /\ ~panicked
    /\ OnlyCache
    /\ LET r == GetBlockCache(queue, handles, device, block_id) IN
       /\ panicked' = r.panic
       /\ device' = r.dev
       /\ IF r.panic
          THEN queue' = r.q /\ UNCHANGED shadow
          ELSE LET i == FindBlock(r.q, block_id) IN
               /\ queue' = [r.q EXCEPT ![i] = BlockCacheModify(@, v)]
               /\ shadow' = [shadow EXCEPT ![block_id] = v]
       /\ last' = [op |-> "modify", block_id |-> block_id, hit |-> r.hit,
                   evicted |-> r.evicted, written |-> r.written,
                   panic |-> r.panic, value |-> {v}]
    /\ UNCHANGED handles

\* get_block_cache(block_id, device).lock().read(0, |x| *x)
ReadBlock(block_id) ==
    /\ ~panicked
    /\ OnlyCache
    /\ LET r == GetBlockCache(queue, handles, device, block_id) IN
       /\ panicked' = r.panic
       /\ device' = r.dev
       /\ queue' = r.q
       /\ last' = [op |-> "read", block_id |-> block_id, hit |-> r.hit,
                   evicted |-> r.evicted, written |-> r.written,
                   panic |-> r.panic,
                   value |-> IF r.panic THEN {}
                             ELSE {r.q[FindBlock(r.q, block_id)].cache}]
    /\ UNCHANGED <<handles, shadow>>

\* block_cache_sync_all()
BlockCacheSyncAll ==
    /\ ~panicked
    /\ OnlyCache
    /\ LET r == SyncFrom(queue, device, 1, {}) IN
       /\ queue' = r.q
       /\ device' = r.dev
       /\ last' = [op |-> "sync_all", block_id |-> None, hit |-> FALSE,
                   evicted |-> {}, written |-> r.written, panic |-> FALSE,
                   value |-> {}]
    /\ UNCHANGED <<handles, shadow, panicked>>

NoOp == [op |-> "init", block_id |-> None, hit |-> FALSE, evicted |-> {},
         written |-> {}, panic |-> FALSE, value |-> {}]

\* The manager starts empty (BlockCacheManager::new); the model also starts
\* from a running system that has loaded blocks 0 .. Warm-1, with no Arc
\* outstanding or with one caller holding each of the blocks 2 .. Warm-1.
InitCache ==
    /\ device = [b \in Blocks |-> 0]
    /\ shadow = device
    /\ \E n \in {0, Warm} : queue = WarmQueue(n, device)
    /\ \E pinned \in {{}, {b \in 2 .. (Warm - 1) : b < Len(queue)}} :
          handles = [b \in Blocks |-> IF b \in pinned THEN 1 ELSE 0]
    /\ panicked = FALSE
    /\ last = NoOp
    /\ IdleBitmap
    /\ IdleFrame
    /\ IdleMM
    /\ IdleTime
    /\ IdleTask
    /\ IdleFs
    /\ IdleFd
    /\ IdleProc
    /\ IdleHanoi
    /\ IdleFTest

\* Callers that take and release handles.
NextCache ==
    \/ \E b \in ReqBlocks, keep \in BOOLEAN : GetBlockCacheOp(b, keep)
    \/ \E b \in ReqBlocks : DropHandle(b)

SpecCache == InitCache /\ [][NextCache]_vars

\* Callers that read and modify blocks and sync the cache.
InitCacheData ==
    /\ device \in [Blocks -> {0}]
    /\ shadow = device
    /\ \E n \in {0, Warm} : queue = WarmQueue(n, device)
    /\ handles = [b \in Blocks |-> 0]
    /\ panicked = FALSE
    /\ last = NoOp
    /\ IdleBitmap
    /\ IdleFrame
    /\ IdleMM
    /\ IdleTime
    /\ IdleTask
    /\ IdleFs
    /\ IdleFd
    /\ IdleProc
    /\ IdleHanoi
    /\ IdleFTest

NextCacheData ==
    \/ \E b \in ModBlocks, v \in Vals : ModifyBlock(b, v)
    \/ \E b \in ReqBlocks : ReadBlock(b)
    \/ BlockCacheSyncAll

SpecCacheData == InitCacheData /\ [][NextCacheData]_vars

(***************************************************************************)
(* Claims about the block cache                                            *)
(***************************************************************************)

QueueIds(q) == {q[i].block_id : i \in 1..Len(q)}

\* C1: after any sequence of get_block_cache calls (hits, misses,
\* evictions) the queue holds at most one entry for any block_id.
C1_OneEntryPerBlock ==
    \A i, j \in 1..Len(queue) :
        queue[i].block_id = queue[j].block_id => i = j

\* A hit on a full queue out of which one of the blocks loaded first has
\* been evicted.
C1_Witness ==
    /\ last.op = "get" /\ last.hit
    /\ Len(queue) = BLOCK_CACHE_SIZE
    /\ \E b \in 0 .. (Warm - 1) : b \notin QueueIds(queue)

\* C2: the queue never holds more than 16 entries, and no step removes from
\* the queue an entry some caller still holds a handle to.
C2_CapacityAndPinned ==
    /\ [](Len(queue) <= 16)
    /\ [][\A i \in 1..Len(queue) :
             handles[queue[i].block_id] > 0
                => queue[i].block_id \in QueueIds(queue')]_vars

\* An eviction that passed over a pinned entry at the front of the queue.
C2_Witness ==
    /\ last.op = "get" /\ last.evicted # {}
    /\ Len(queue) = BLOCK_CACHE_SIZE
    /\ handles[queue[1].block_id] > 0

\* C3: a miss on a queue of 16 entries removes the first entry, front to
\* back, whose reference count is 1 and appends the block asked for; if all
\* 16 are pinned the call panics and loads nothing.
C3_FirstUnpinnedOrPanic ==
    [][(last'.op = "get" /\ ~last'.hit /\ Len(queue) = 16) =>
        LET Unpinned == {i \in 1..16 : handles[queue[i].block_id] = 0} IN
        IF Unpinned # {}
        THEN LET m == CHOOSE i \in Unpinned : \A j \in Unpinned : i <= j IN
             /\ ~panicked'
             /\ Len(queue') = 16
             /\ \A k \in 1..15 :
                   queue'[k] = IF k < m THEN queue[k] ELSE queue[k + 1]
             /\ queue'[16].block_id = last'.block_id
             /\ last'.evicted = {queue[m].block_id}
        ELSE /\ panicked'
             /\ queue' = queue
             /\ device' = device]_vars

\* The call that found all 16 entries pinned.
C3_Witness ==
    /\ panicked
    /\ last.op = "get" /\ last.panic
    /\ \A i \in 1..Len(queue) : handles[queue[i].block_id] > 0

\* C4: no modification is lost by eviction: a block's current content (the
\* value last stored through modify) is in its cache entry while it is
\* cached and on the device while it is not, so a read after an eviction
\* returns the modified content.
C4_NoLostModification ==
    /\ \A b \in Blocks :
          IF \E i \in 1..Len(queue) : queue[i].block_id = b
          THEN \A i \in 1..Len(queue) :
                  queue[i].block_id = b => queue[i].cache = shadow[b]
          ELSE device[b] = shadow[b]
    /\ (last.op = "read" /\ ~last.panic) => last.value = {shadow[last.block_id]}

\* A read at full capacity that missed and loaded back from the device the
\* value an earlier modify stored, the entry having been evicted since.
C4_Witness ==
    /\ last.op = "read" /\ ~last.hit
    /\ last.evicted # {}
    /\ last.value \notin {{}, {0}}
    /\ last.value = {shadow[last.block_id]}

\* C5: right after block_cache_sync_all no entry is dirty, the device holds
\* every cached block's content, and sync wrote exactly the entries that
\* were dirty: a clean entry is never written.
C5_SyncAll ==
    [][last'.op = "sync_all" =>
        /\ \A i \in 1..Len(queue') :
              /\ ~queue'[i].modified
              /\ device'[queue'[i].block_id] = queue'[i].cache
        /\ last'.written =
              {queue[i].block_id : i \in {k \in 1..Len(queue) : queue[k].modified}}
        /\ \A b \in Blocks \ last'.written : device'[b] = device[b]]_vars

\* A sync_all that wrote some entries and left clean ones alone.
C5_Witness ==
    /\ last.op = "sync_all"
    /\ last.written # {}
    /\ Cardinality(last.written) < Len(queue)

(***************************************************************************)
(* Bitmap (easy-fs/src/bitmap.rs)                                          *)
(***************************************************************************)

\* A BitmapBlock is [u64; 64]; a u64 lane is modelled by the set of the
\* positions of its 1 bits, so u64::MAX is the set of all 64 positions.
LANE_BITS == 64
LANES == 64
BLOCK_BITS == LANES * LANE_BITS
U64_MAX == 0 .. (LANE_BITS - 1)

\* Bitmap.n_blocks
NBlocks == 2
\* Most Bitmap::alloc calls in one run.
MaxAllocs == 3

NBits == NBlocks * BLOCK_BITS

\* u64::trailing_ones: the number of consecutive 1 bits from bit 0.
TrailingOnes(bits64) ==
    CHOOSE n \in 0 .. LANE_BITS :
        /\ \A j \in 0 .. (n - 1) : j \in bits64
        /\ n < LANE_BITS => n \notin bits64

DecompositionNoWrap(bit) ==
    <<bit \div BLOCK_BITS, (bit \div LANE_BITS) % LANES, bit % BLOCK_BITS>>

\* decomposition(bit) = (block_pos, bits64_pos, inner_pos)
Decomposition(bit) ==
    LET block_pos == bit \div BLOCK_BITS
        rest == bit % BLOCK_BITS
    IN <<block_pos, rest \div LANE_BITS, rest % LANE_BITS>>

AllocInBlockLastLane(bitmap_block, block_id) ==
    IF \E l \in 0 .. (LANES - 1) : bitmap_block[l] # U64_MAX
    THEN LET bits64_pos == CHOOSE l \in 0 .. (LANES - 1) :
                 /\ bitmap_block[l] # U64_MAX
                 /\ \A k \in (l + 1) .. (LANES - 1) : bitmap_block[k] = U64_MAX
             inner_pos == TrailingOnes(bitmap_block[bits64_pos])
         IN [pos |-> {block_id * BLOCK_BITS + bits64_pos * LANE_BITS + inner_pos},
             block |-> [bitmap_block EXCEPT ![bits64_pos] = @ \cup {inner_pos}]]
    ELSE [pos |-> {}, block |-> bitmap_block]

\* The closure of Bitmap::alloc on one bitmap block: the first lane that is
\* not u64::MAX, its lowest 0 bit set; pos is {} for None.
AllocInBlock(bitmap_block, block_id) ==
    IF \E l \in 0 .. (LANES - 1) : bitmap_block[l] # U64_MAX
    THEN LET bits64_pos == CHOOSE l \in 0 .. (LANES - 1) :
                 /\ bitmap_block[l] # U64_MAX
                 /\ \A k \in 0 .. (l - 1) : bitmap_block[k] = U64_MAX
             inner_pos == TrailingOnes(bitmap_block[bits64_pos])
         IN [pos |-> {block_id * BLOCK_BITS + bits64_pos * LANE_BITS + inner_pos},
             block |-> [bitmap_block EXCEPT ![bits64_pos] = @ \cup {inner_pos}]]
    ELSE [pos |-> {}, block |-> bitmap_block]

RECURSIVE AllocFrom(_, _)
\* Bitmap::alloc: for block_id in 0..n_blocks, return at the first block
\* that yields a position.
AllocFrom(bm, block_id) ==
    IF block_id >= NBlocks THEN [pos |-> {}, bm |-> bm]
    ELSE LET r == AllocInBlock(bm[block_id], block_id) IN
         IF r.pos # {}
         THEN [pos |-> r.pos, bm |-> [bm EXCEPT ![block_id] = r.block]]
         ELSE AllocFrom(bm, block_id + 1)

BitmapAlloc(bm) == AllocFrom(bm, 0)

\* Bitmap::dealloc: assert the bit is set, then clear it.
BitmapDealloc(bm, bit) ==
    LET d == Decomposition(bit) IN
    IF d[3] \in bm[d[1]][d[2]]
    THEN [panic |-> FALSE, bm |-> [bm EXCEPT ![d[1]][d[2]] = @ \ {d[3]}]]
    ELSE [panic |-> TRUE, bm |-> bm]

\* The bitmap after its first n bits were allocated in order.
PrefixBitmap(n) ==
    [b \in 0 .. (NBlocks - 1) |->
        [l \in 0 .. (LANES - 1) |->
            {i \in U64_MAX : b * BLOCK_BITS + l * LANE_BITS + i < n}]]

\* How many bits are allocated when the model starts.
InitPrefixes == {0, LANE_BITS - 1, BLOCK_BITS - 1, NBits - 2}
\* The bits the callers of the model free, besides the bit just allocated.
DeallocBits == {0, 1, LANE_BITS - 1, LANE_BITS, BLOCK_BITS - 1, BLOCK_BITS,
                NBits - 1}

\* bitmap.alloc(&device)
BitmapAllocOp ==
    /\ ~panicked
    /\ OnlyBitmap
    /\ allocs < MaxAllocs
    /\ LET r == BitmapAlloc(bitmap) IN
       /\ bitmap' = r.bm
       /\ last' = [op |-> "alloc", pos |-> r.pos, pre |-> bitmap]
    /\ allocs' = allocs + 1
    /\ UNCHANGED panicked

\* bitmap.dealloc(&device, bit), for a bit inside the bitmap
BitmapDeallocOp(bit) ==
    /\ ~panicked
    /\ OnlyBitmap
    /\ LET r == BitmapDealloc(bitmap, bit) IN
       /\ bitmap' = r.bm
       /\ panicked' = r.panic
       /\ last' = [op |-> "dealloc", bit |-> bit, panic |-> r.panic,
                   undoes |-> (last.op = "alloc" /\ last.pos = {bit})]
    /\ UNCHANGED allocs

InitBitmap ==
    /\ IdleCache
    /\ IdleFrame
    /\ IdleMM
    /\ IdleTime
    /\ IdleTask
    /\ IdleFs
    /\ IdleFd
    /\ IdleProc
    /\ IdleHanoi
    /\ IdleFTest
    /\ \E n \in InitPrefixes : bitmap = PrefixBitmap(n)
    /\ allocs = 0
    /\ panicked = FALSE
    /\ last = [op |-> "init"]

NextBitmap ==
    \/ BitmapAllocOp
    \/ \E bit \in DeallocBits \cup (IF last.op = "alloc" THEN last.pos ELSE {}) :
          BitmapDeallocOp(bit)

SpecBitmap == InitBitmap /\ [][NextBitmap]_vars

(***************************************************************************)
(* Claims about the bitmap                                                 *)
(***************************************************************************)

\* Whether bit b is set, read off the lanes.
BitSet(bm, b) ==
    (b % 64) \in bm[b \div 4096][(b % 4096) \div 64]

\* C6: dealloc(i) right after an alloc() that returned Some(i) leaves the
\* bitmap as it was before the alloc; dealloc of a bit that is clear panics
\* and leaves the bitmap unchanged.
C6_AllocDeallocRoundTrip ==
    [][last'.op = "dealloc" =>
        /\ (last.op = "alloc" /\ last.pos = {last'.bit}) =>
              (~panicked' /\ bitmap' = last.pre)
        /\ ~BitSet(bitmap, last'.bit) => (panicked' /\ bitmap' = bitmap)]_vars

\* A round trip in the second block, past a hole freed in the first lane's
\* neighbourhood: alloc returned a bit at or above 4096 and dealloc undid it.
C6_Witness ==
    /\ last.op = "dealloc" /\ last.undoes /\ ~panicked
    /\ last.bit >= 4096

\* C7: alloc returns the smallest clear bit index over all the blocks
\* (every lane before its lane is full, every bit below it in its lane is
\* set, and the bit itself was clear) and sets that bit and no other; when
\* every bit of every block is set it returns None and leaves the bitmap
\* unchanged.
C7_AllocSmallestClear ==
    [][last'.op = "alloc" =>
        IF last'.pos = {}
        THEN /\ \A b \in 0 .. (NBlocks - 1), l \in 0 .. 63 : bitmap[b][l] = 0 .. 63
             /\ bitmap' = bitmap
        ELSE \E m \in last'.pos :
             LET blk == m \div 4096
                 ln  == (m % 4096) \div 64
                 inn == m % 64
             IN /\ last'.pos = {m}
                /\ m \in 0 .. (NBits - 1)
                /\ \A b \in 0 .. blk, l \in 0 .. 63 :
                      (b * 64 + l < blk * 64 + ln) => bitmap[b][l] = 0 .. 63
                /\ \A i \in 0 .. (inn - 1) : i \in bitmap[blk][ln]
                /\ inn \notin bitmap[blk][ln]
                /\ bitmap' = [bitmap EXCEPT ![blk][ln] = @ \cup {inn}]]_vars

\* An alloc that filled a hole: the bit returned lies past the first lane
\* and below a bit that was already set.
C7_Witness ==
    /\ last.op = "alloc"
    /\ \E m \in last.pos :
          /\ m >= 64
          /\ \E c \in (m + 1) .. (NBits - 1) : BitSet(last.pre, c)

\* The alloc that found every bit of every block set.
C7_WitnessFull ==
    /\ last.op = "alloc"
    /\ last.pos = {}

(***************************************************************************)
(* Frame allocator (os/src/mm/frame_allocator.rs)                          *)
(***************************************************************************)

\* config::PAGE_SIZE
PAGE_SIZE == 4096
\* MEMORY_END = 0x80800000 as a page number.
MEMORY_END_PPN == 526336

\* Frames between ekernel and MEMORY_END.
NumFrames == 3

\* PhysAddr::from(ekernel).ceil() and PhysAddr::from(MEMORY_END).floor()
EkernelPpn == MEMORY_END_PPN - NumFrames
\* The frames the allocator manages, and the kernel page right below them.
Frames == EkernelPpn .. (MEMORY_END_PPN - 1)
KernelPage == EkernelPpn - 1
PhysPages == {KernelPage} \cup Frames

\* From<usize> for PhysPageNum: a value at or above ekernel is taken for a
\* byte address and shifted, a smaller one for a page number. ekernel is a
\* page-aligned byte address, so v >= ekernel iff v / 4096 >= ekernel / 4096.
PhysPageNumFrom(v) ==
    IF v \div PAGE_SIZE >= EkernelPpn
    THEN v \div PAGE_SIZE
    ELSE v

SeqHas(seq, x) == \E i \in 1..Len(seq) : seq[i] = x

\* An alloc that takes the page at the bump pointer before a recycled one.
FaAllocBumpFirst(a) ==
    IF a.current < a.end
    THEN [ppn |-> {a.current}, fa |-> [a EXCEPT !.current = @ + 1],
          from |-> "bump"]
    ELSE IF Len(a.recycled) > 0
    THEN [ppn |-> {PhysPageNumFrom(a.recycled[Len(a.recycled)])},
          fa |-> [a EXCEPT !.recycled = SubSeq(@, 1, Len(@) - 1)],
          from |-> "recycled"]
    ELSE [ppn |-> {}, fa |-> a, from |-> "none"]

FaAllocNoPop(a) ==
    IF Len(a.recycled) > 0
    THEN [ppn |-> {PhysPageNumFrom(a.recycled[Len(a.recycled)])},
          fa |-> a, from |-> "recycled"]
    ELSE IF a.current < a.end
    THEN [ppn |-> {a.current}, fa |-> [a EXCEPT !.current = @ + 1],
          from |-> "bump"]
    ELSE [ppn |-> {}, fa |-> a, from |-> "none"]

\* StackFrameAllocator::alloc: ppn is {} for None.
FaAlloc(a) ==
    IF Len(a.recycled) > 0
    THEN [ppn |-> {PhysPageNumFrom(a.recycled[Len(a.recycled)])},
          fa |-> [a EXCEPT !.recycled = SubSeq(@, 1, Len(@) - 1)],
          from |-> "recycled"]
    ELSE IF a.current < a.end
    THEN [ppn |-> {a.current}, fa |-> [a EXCEPT !.current = @ + 1],
          from |-> "bump"]
    ELSE [ppn |-> {}, fa |-> a, from |-> "none"]

FaDeallocNoRecycledCheck(a, mem, ppn) ==
    IF ppn >= a.current
    THEN [panic |-> TRUE, fa |-> a, mem |-> mem]
    ELSE [panic |-> FALSE,
          fa |-> [a EXCEPT !.recycled = Append(@, ppn)],
          mem |-> [mem EXCEPT ![ppn] = 0]]

\* StackFrameAllocator::dealloc: the validity check, the zero fill, the push.
FaDealloc(a, mem, ppn) ==
    IF ppn >= a.current \/ SeqHas(a.recycled, ppn)
    THEN [panic |-> TRUE, fa |-> a, mem |-> mem]
    ELSE [panic |-> FALSE,
          fa |-> [a EXCEPT !.recycled = Append(@, ppn)],
          mem |-> [mem EXCEPT ![ppn] = 0]]

\* frame_alloc(): a FrameTracker around the page allocated, or None.
FrameAllocOp ==
    /\ ~panicked
    /\ OnlyFrame
    /\ LET r == FaAlloc(fa) IN
       /\ fa' = r.fa
       /\ live' = [p \in PhysPages |->
                      IF p \in r.ppn THEN live[p] + 1 ELSE live[p]]
       /\ last' = [op |-> "frame_alloc", ppn |-> r.ppn, from |-> r.from,
                   content |-> {pages[p] : p \in r.ppn}]
    /\ UNCHANGED <<pages, panicked>>

\* The owner of a live FrameTracker stores into its page.
FrameWrite(ppn, v) ==
    /\ ~panicked
    /\ OnlyFrame
    /\ live[ppn] > 0
    /\ pages' = [pages EXCEPT ![ppn] = v]
    /\ last' = [op |-> "frame_write", ppn |-> {ppn}]
    /\ UNCHANGED <<fa, live, panicked>>

\* Drop for FrameTracker: frame_dealloc(self.ppn)
FrameDrop(ppn) ==
    /\ ~panicked
    /\ OnlyFrame
    /\ live[ppn] > 0
    /\ LET r == FaDealloc(fa, pages, ppn) IN
       /\ fa' = r.fa
       /\ pages' = r.mem
       /\ panicked' = r.panic
       /\ last' = [op |-> "frame_drop", ppn |-> {ppn}, panic |-> r.panic,
                   was |-> pages[ppn]]
    /\ live' = [live EXCEPT ![ppn] = @ - 1]

\* StackFrameAllocator::dealloc(ppn) for a page no live tracker holds: the
\* drop of a FrameTracker::new(ppn) that frame_alloc did not hand out.
FrameDeallocRaw(ppn) ==
    /\ ~panicked
    /\ OnlyFrame
    /\ live[ppn] = 0
    /\ LET r == FaDealloc(fa, pages, ppn) IN
       /\ fa' = r.fa
       /\ pages' = r.mem
       /\ panicked' = r.panic
       /\ last' = [op |-> "dealloc", ppn |-> {ppn}, panic |-> r.panic,
                   was |-> pages[ppn]]
    /\ UNCHANGED live

\* init_frame_allocator(); RAM holds anything at boot.
InitFrame ==
    /\ IdleCache
    /\ IdleBitmap
    /\ IdleMM
    /\ IdleTime
    /\ IdleTask
    /\ IdleFs
    /\ IdleFd
    /\ IdleProc
    /\ IdleHanoi
    /\ IdleFTest
    /\ fa = [current |-> EkernelPpn, end |-> MEMORY_END_PPN, recycled |-> <<>>]
    /\ live = [p \in PhysPages |-> 0]
    /\ \E v \in Vals : pages = [p \in PhysPages |-> v]
    /\ panicked = FALSE
    /\ last = [op |-> "init"]

NextFrame ==
    \/ FrameAllocOp
    \/ \E p \in PhysPages, v \in Vals \ {0} : FrameWrite(p, v)
    \/ \E p \in PhysPages : FrameDrop(p)
    \/ \E p \in PhysPages : FrameDeallocRaw(p)

SpecFrame == InitFrame /\ [][NextFrame]_vars

\* frame_allocator_test(), with k for its 5 and started at any time after
\* boot.  ftest.v is the Vec of trackers, as their page numbers.

\* The drop of a Vec<FrameTracker>: frame_dealloc of each element in order.
RECURSIVE DropFrames(_, _, _)
DropFrames(a, mem, v) ==
    IF v = <<>>
    THEN [panic |-> FALSE, fa |-> a, mem |-> mem]
    ELSE LET r == FaDealloc(a, mem, Head(v)) IN
         IF r.panic THEN r ELSE DropFrames(r.fa, r.mem, Tail(v))

FrameTestStart(k) ==
    /\ ~panicked /\ OnlyFrameTest
    /\ ftest.phase = "idle"
    /\ ftest' = [phase |-> "first", k |-> k, v |-> <<>>]
    /\ last' = [op |-> "test_start"]
    /\ UNCHANGED <<frameVars, panicked>>

\* let frame = frame_alloc().unwrap(); v.push(frame);
FrameTestAlloc ==
    /\ ~panicked /\ OnlyFrameTest
    /\ ftest.phase \in {"first", "again"} /\ Len(ftest.v) < ftest.k
    /\ \E r \in {FaAlloc(fa)} :
        /\ fa' = r.fa
        /\ panicked' = (r.ppn = {})
        /\ live' = [p \in PhysPages |->
                       IF p \in r.ppn THEN live[p] + 1 ELSE live[p]]
        /\ ftest' = IF r.ppn = {} THEN ftest
                    ELSE [ftest EXCEPT !.v = Append(@, CHOOSE p \in r.ppn : TRUE)]
        /\ last' = [op |-> "frame_alloc", ppn |-> r.ppn, from |-> r.from,
                    content |-> {pages[p] : p \in r.ppn}]
    /\ UNCHANGED pages

\* v.clear() after the first loop and drop(v) after the second.
FrameTestClear ==
    /\ ~panicked /\ OnlyFrameTest
    /\ ftest.phase \in {"first", "again"} /\ Len(ftest.v) = ftest.k
    /\ \E r \in {DropFrames(fa, pages, ftest.v)} :
        /\ fa' = r.fa
        /\ pages' = r.mem
        /\ panicked' = r.panic
    /\ live' = [p \in PhysPages |->
                   IF SeqHas(ftest.v, p) THEN live[p] - 1 ELSE live[p]]
    /\ ftest' = IF ftest.phase = "first"
                THEN [phase |-> "again", k |-> ftest.k, v |-> <<>>,
                      first |-> {ftest.v[i] : i \in DOMAIN ftest.v},
                      current |-> fa.current]
                ELSE [phase |-> "passed"]
    /\ last' = [op |-> "test_clear", was |-> ftest.phase]

InitFrameTest == InitFrame

NextFrameTest ==
    \/ ftest.phase = "idle" /\ FrameAllocOp
    \/ ftest.phase = "idle" /\ \E p \in PhysPages : FrameDrop(p)
    \/ \E k \in 1 .. NumFrames : FrameTestStart(k)
    \/ FrameTestAlloc
    \/ FrameTestClear

SpecFrameTest == InitFrameTest /\ [][NextFrameTest]_vars

(***************************************************************************)
(* Claims about the frame allocator                                        *)
(***************************************************************************)

\* C8: no physical page number is held by two live FrameTrackers, and no
\* live tracker's page is in the recycled list or at or above the bump
\* pointer.
C8_FrameExclusive ==
    \A p \in PhysPages :
        /\ live[p] <= 1
        /\ live[p] > 0 =>
              /\ \A i \in 1..Len(fa.recycled) : fa.recycled[i] # p
              /\ p < fa.current

\* A recycled page handed out again while other trackers are live and
\* another page waits in the recycled list.
C8_Witness ==
    /\ last.op = "frame_alloc" /\ last.from = "recycled"
    /\ \E p, q \in PhysPages : p # q /\ live[p] > 0 /\ live[q] > 0
    /\ Len(fa.recycled) > 0

\* C9: dealloc(ppn) panics and changes nothing when ppn >= current or ppn
\* is already in the recycled list; otherwise it zero-fills the page and
\* pushes ppn on the recycled list. So every page in the recycled list is
\* all zeroes, and is all zeroes when it is handed out again.
C9_DeallocChecked ==
    /\ [][last'.op \in {"frame_drop", "dealloc"} =>
            \E p \in last'.ppn :
               IF p >= fa.current \/ \E i \in 1..Len(fa.recycled) : fa.recycled[i] = p
               THEN panicked' /\ fa' = fa /\ pages' = pages
               ELSE /\ ~panicked'
                    /\ pages' = [pages EXCEPT ![p] = 0]
                    /\ fa' = [fa EXCEPT !.recycled = Append(fa.recycled, p)]]_vars
    /\ [](\A i \in 1..Len(fa.recycled) : pages[fa.recycled[i]] = 0)
    /\ []((last.op = "frame_alloc" /\ last.from = "recycled") => last.content = {0})

\* The double free: dealloc of a page that is already in the recycled list.
C9_Witness ==
    /\ panicked
    /\ last.op = "dealloc"
    /\ \E p \in last.ppn :
          /\ p < fa.current
          /\ \E i \in 1..Len(fa.recycled) : fa.recycled[i] = p

\* A page that held data when its tracker was dropped, zeroed by dealloc.
C9_WitnessZeroed ==
    /\ last.op = "frame_drop" /\ ~panicked
    /\ last.was # 0
    /\ \A p \in last.ppn : pages[p] = 0

(***************************************************************************)
(* Addresses and page table (os/src/mm/address.rs, page_table.rs)          *)
(*                                                                         *)
(* A usize that holds a virtual address is kept modulo 2^39, which is all  *)
(* that VirtAddr::from and VirtPageNum::from keep of it, as the record     *)
(* [page, off] of its page number (27 bits) and its offset in the page.    *)
(***************************************************************************)

\* 1 << VPN_WIDTH_SV39
VPN_SPACE == 134217728
\* entries of one page table: 9 index bits
PT_ENTRIES == 512

Va(page, off) == [page |-> page, off |-> off]

\* start + len on usize, then seen through the 39-bit mask
UsizeAdd(a, n) ==
    Va((a.page + (a.off + n) \div PAGE_SIZE) % VPN_SPACE, (a.off + n) % PAGE_SIZE)

\* a usize that holds a small number, read as an address
UsizeOf(n) == Va((n \div PAGE_SIZE) % VPN_SPACE, n % PAGE_SIZE)

\* From<usize> for VirtAddr
VirtAddrFrom(a) == Va(a.page % VPN_SPACE, a.off)
\* From<usize> for VirtPageNum: the address masked and shifted right by 12
VirtPageNumFrom(a) == a.page % VPN_SPACE
\* VirtAddr::floor, ceil, aligned
Floor(va) == va.page
Ceil(va) == va.page + (IF va.off = 0 THEN 0 ELSE 1)
Aligned(va) == va.off = 0
\* VirtPageNum::indexes, high to low
Indexes(vpn) ==
    <<(vpn \div (PT_ENTRIES * PT_ENTRIES)) % PT_ENTRIES,
      (vpn \div PT_ENTRIES) % PT_ENTRIES,
      vpn % PT_ENTRIES>>

PTE_V == 1
PTE_R == 2
PTE_W == 4
PTE_X == 8
PTE_U == 16

HasFlag(bits, f) == (bits \div f) % 2 = 1
\* flags | f
WithFlag(bits, f) == IF HasFlag(bits, f) THEN bits ELSE bits + f

\* PageTableEntry::new, ppn, flags, is_valid. The modelled PTEs are below
\* 2^31, so the 44-bit mask of ppn() keeps every bit.
PteNew(ppn, flags) == ppn * 1024 + flags
PtePpn(bits) == PhysPageNumFrom(bits \div 1024)
PteFlags(bits) == bits % 256
PteIsValid(bits) == HasFlag(PteFlags(bits), PTE_V)

\* ppn.get_pte_array()[idx]; an entry not in the domain is PageTableEntry::empty()
PteAt(mem, slot) == IF slot \in DOMAIN mem THEN mem[slot] ELSE 0
PteSet(mem, slot, bits) ==
    IF bits = 0
    THEN [x \in DOMAIN mem \ {slot} |-> mem[x]]
    ELSE [x \in DOMAIN mem \cup {slot} |-> IF x = slot THEN bits ELSE mem[x]]

\* PageTable::find_pte: {} for None, else the slot of the leaf entry, which
\* is returned whether or not it is valid.
FindPte(mem, root, vpn) ==
    LET ix == Indexes(vpn)
        p0 == PteAt(mem, <<root, ix[1]>>)
    IN  IF ~PteIsValid(p0) THEN {}
        ELSE LET p1 == PteAt(mem, <<PtePpn(p0), ix[2]>>)
             IN  IF ~PteIsValid(p1) THEN {}
                 ELSE {<<PtePpn(p1), ix[3]>>}

\* PageTable::translate: the set holds a copy of the entry, {} for None
Translate(mem, root, vpn) == {PteAt(mem, s) : s \in FindPte(mem, root, vpn)}

(***************************************************************************)
(* Memory set (os/src/mm/memory_set.rs)                                    *)
(*                                                                         *)
(* The kernel operations run on a record k of the state they touch:        *)
(*   ms, ptes, fa, live, pages   the variables of the same names           *)
(*   area    the MapArea under construction                                *)
(*   panic   the kernel has panicked                                       *)
(*   ret     the value the last call returned                              *)
(***************************************************************************)

\* The rest of a kernel path: F runs on k unless the kernel has panicked.
Then(k, F(_)) == IF k.panic THEN k ELSE F(k)
\* let x = ...; F(x)
Let(x, F(_)) == F(x)
\* panic!: the call returns nothing
Panic(k) == [k EXCEPT !.panic = TRUE, !.ret = 0]

\* frame_alloc().unwrap(): ret is the page of the new tracker
FrameAllocUnwrap(k) ==
    Let(FaAlloc(k.fa), LAMBDA r :
        IF r.ppn = {}
        THEN Panic(k)
        ELSE Let(CHOOSE x \in r.ppn : TRUE, LAMBDA p :
                 [k EXCEPT !.fa = r.fa, !.live[p] = @ + 1, !.ret = p]))

\* drop of the FrameTracker of ppn
FrameTrackerDrop(k, ppn) ==
    Let(FaDealloc(k.fa, k.pages, ppn), LAMBDA r :
        [k EXCEPT !.fa = r.fa, !.pages = r.mem, !.live[ppn] = @ - 1,
                  !.panic = r.panic])

\* One step of the walk of find_pte_create above the leaf: the table the
\* entry idx of table tbl points to, allocated if the entry is not valid.
NextTableCreate(k, tbl, idx) ==
    Let(PteAt(k.ptes, <<tbl, idx>>), LAMBDA pte :
        IF PteIsValid(pte)
        THEN [k EXCEPT !.ret = PtePpn(pte)]
        ELSE Then(FrameAllocUnwrap(k), LAMBDA a :
                  [a EXCEPT
                     !.ptes = PteSet(@, <<tbl, idx>>, PteNew(a.ret, PTE_V)),
                     !.ms.page_table.frames = Append(@, a.ret),
                     !.ret = PtePpn(PteNew(a.ret, PTE_V))]))

\* PageTable::find_pte_create: ret is the slot of the leaf entry
FindPteCreate(k, vpn) ==
    Let(Indexes(vpn), LAMBDA ix :
        Then(NextTableCreate(k, k.ms.page_table.root_ppn, ix[1]), LAMBDA k1 :
        Then(NextTableCreate(k1, k1.ret, ix[2]), LAMBDA k2 :
             [k2 EXCEPT !.ret = <<k2.ret, ix[3]>>])))

\* A map without the assertion that the leaf is not valid.
PageTableMapOverwrite(k, vpn, ppn, flags) ==
    Then(FindPteCreate(k, vpn), LAMBDA c :
         [c EXCEPT !.ptes = PteSet(@, c.ret, PteNew(ppn, WithFlag(flags, PTE_V)))])

\* PageTable::map
PageTableMap(k, vpn, ppn, flags) ==
    Then(FindPteCreate(k, vpn), LAMBDA c :
         IF PteIsValid(PteAt(c.ptes, c.ret))
         THEN Panic(c)
         ELSE [c EXCEPT !.ptes = PteSet(@, c.ret, PteNew(ppn, WithFlag(flags, PTE_V)))])

\* PageTable::unmap
PageTableUnmap(k, vpn) ==
    Let(FindPte(k.ptes, k.ms.page_table.root_ppn, vpn), LAMBDA f :
        IF f = {}
        THEN Panic(k)
        ELSE Let(CHOOSE x \in f : TRUE, LAMBDA slot :
                 IF ~PteIsValid(PteAt(k.ptes, slot))
                 THEN Panic(k)
                 ELSE [k EXCEPT !.ptes = PteSet(@, slot, 0)]))

\* MapArea::new; SimpleRange::new asserts start <= end
MapAreaNew(k, start_va, end_va, map_type, map_perm) ==
    IF Floor(start_va) > Ceil(end_va)
    THEN Panic(k)
    ELSE [k EXCEPT !.area = [l |-> Floor(start_va), r |-> Ceil(end_va),
                             data_frames |-> <<>>,
                             map_type |-> map_type, map_perm |-> map_perm]]

ContainInclusive(area, vpn) == vpn >= area.l /\ vpn <= area.r

\* SimpleRange::contain
Contain(area, vpn) == vpn >= area.l /\ vpn < area.r

\* BTreeMap::insert on an absent key, BTreeMap::remove
MapInsert(f, key, v) ==
    [x \in DOMAIN f \cup {key} |-> IF x = key THEN v ELSE f[x]]
MapRemove(f, key) == [x \in DOMAIN f \ {key} |-> f[x]]

\* MapArea::map_one on k.area
MapOne(k, vpn) ==
    IF k.area.map_type = "Identical"
    THEN PageTableMap(k, vpn, vpn, k.area.map_perm)
    ELSE Then(FrameAllocUnwrap(k), LAMBDA a :
              PageTableMap([a EXCEPT !.area.data_frames = MapInsert(@, vpn, a.ret)],
                           vpn, a.ret, a.area.map_perm))

\* MapArea::map: for vpn in self.vpn_range
RECURSIVE AreaMap(_, _)
AreaMap(k, vpn) ==
    IF vpn = k.area.r THEN k
    ELSE Then(MapOne(k, vpn), LAMBDA m : AreaMap(m, vpn + 1))

\* MapArea::copy_data for data that covers n pages, each of content fill
RECURSIVE CopyData(_, _, _, _)
CopyData(k, current_vpn, n, fill) ==
    Let(Translate(k.ptes, k.ms.page_table.root_ppn, current_vpn), LAMBDA t :
        IF t = {}
        THEN Panic(k)
        ELSE Let([k EXCEPT !.pages[PtePpn(CHOOSE x \in t : TRUE)] = fill], LAMBDA c :
                 IF n <= 1 THEN c ELSE CopyData(c, current_vpn + 1, n - 1, fill)))

\* MemorySet::push; n = 0 for data = None
Push(k, n, fill) ==
    Then(AreaMap(k, k.area.l), LAMBDA m :
    Then(IF n = 0 THEN m ELSE CopyData(m, m.area.l, n, fill), LAMBDA c :
         [c EXCEPT !.ms.areas = Append(@, c.area)]))

\* MemorySet::insert_framed_area
InsertFramedArea(k, start_va, end_va, permission) ==
    Then(MapAreaNew(k, start_va, end_va, "Framed", permission), LAMBDA n :
         Push(n, 0, 0))

\* MapArea::unmap_one on the i-th area of the memory set
UnmapOne(k, i, vpn) ==
    Then(IF /\ k.ms.areas[i].map_type = "Framed"
            /\ vpn \in DOMAIN k.ms.areas[i].data_frames
         THEN FrameTrackerDrop(
                [k EXCEPT !.ms.areas[i].data_frames = MapRemove(@, vpn)],
                k.ms.areas[i].data_frames[vpn])
         ELSE k,
         LAMBDA d : PageTableUnmap(d, vpn))

\* config::TRAMPOLINE = usize::MAX - PAGE_SIZE + 1 and TRAP_CONTEXT one page
\* below it, modulo 2^39
TRAMPOLINE == Va(VPN_SPACE - 1, 0)
TRAP_CONTEXT == Va(VPN_SPACE - 2, 0)
USER_STACK_SIZE == 8192

\* Frames between ekernel and MEMORY_END on the machine that runs the task.
MmFrames == 24
\* sys_mmap calls of one run.
MaxMmaps == 2

MmEkernelPpn == MEMORY_END_PPN - MmFrames
\* the page of strampoline, in the kernel's text below ekernel
StrampolinePpn == MmEkernelPpn - 4
MmPhysPages == StrampolinePpn .. (MEMORY_END_PPN - 1)

\* The program headers of the task's ELF file: two PT_LOAD segments, text
\* and data, each with one page of file content.
UserElf ==
    <<[virtual_addr |-> Va(16, 0), mem_size |-> 2048, flags |-> PTE_R + PTE_X],
      [virtual_addr |-> Va(17, 0), mem_size |-> 2048, flags |-> PTE_R + PTE_W]>>

\* MemorySet::from_elf, the loop over the program headers: ret is max_end_vpn
RECURSIVE LoadSegments(_, _, _, _)
LoadSegments(k, elf, i, max_end_vpn) ==
    IF i > Len(elf) THEN [k EXCEPT !.ret = max_end_vpn]
    ELSE Then(MapAreaNew(k, VirtAddrFrom(elf[i].virtual_addr),
                         VirtAddrFrom(UsizeAdd(elf[i].virtual_addr,
                                               elf[i].mem_size)),
                         "Framed", WithFlag(elf[i].flags, PTE_U)), LAMBDA n :
         Then(Push(n, 1, 1), LAMBDA pushed :
              LoadSegments(pushed, elf, i + 1, n.area.r)))

\* MemorySet::new_bare
NewBare(k) ==
    Then(FrameAllocUnwrap(k), LAMBDA a :
         [a EXCEPT !.ms = [page_table |-> [root_ppn |-> a.ret, frames |-> <<a.ret>>],
                           areas |-> <<>>]])

\* MemorySet::from_elf, the user stack above the guard page
PushUserStack(k, max_end_vpn) ==
    Let(UsizeAdd(Va(max_end_vpn, 0), PAGE_SIZE), LAMBDA user_stack_bottom :
        Then(MapAreaNew(k, VirtAddrFrom(user_stack_bottom),
                        VirtAddrFrom(UsizeAdd(user_stack_bottom, USER_STACK_SIZE)),
                        "Framed", PTE_R + PTE_W + PTE_U), LAMBDA n :
             Push(n, 0, 0)))

\* MemorySet::from_elf of the program headers elf: ret is user_stack_top
FromElf(k, elf) ==
    Then(NewBare(k), LAMBDA bare :
    Then(PageTableMap(bare, Floor(VirtAddrFrom(TRAMPOLINE)), StrampolinePpn,
                      PTE_R + PTE_X), LAMBDA tramp :
    Then(LoadSegments(tramp, elf, 1, 0), LAMBDA segs :
    Then(PushUserStack(segs, segs.ret), LAMBDA stacked :
    Then(MapAreaNew(stacked, VirtAddrFrom(TRAP_CONTEXT), VirtAddrFrom(TRAMPOLINE),
                    "Framed", PTE_R + PTE_W), LAMBDA cx :
    Then(Push(cx, 0, 0), LAMBDA pushed :
         [pushed EXCEPT !.ret =
             UsizeAdd(UsizeAdd(Va(segs.ret, 0), PAGE_SIZE), USER_STACK_SIZE)]))))))

\* The areas of MemorySet::new_kernel, all Identical: .text, .rodata,
\* .data, .bss, the memory from ekernel to MEMORY_END, and the MMIO window
\* of the block device.
KernelAreas ==
    <<[l |-> Va(MmEkernelPpn - 4, 0), r |-> Va(MmEkernelPpn - 3, 0),
       perm |-> PTE_R + PTE_X],
      [l |-> Va(MmEkernelPpn - 3, 0), r |-> Va(MmEkernelPpn - 2, 0),
       perm |-> PTE_R],
      [l |-> Va(MmEkernelPpn - 2, 0), r |-> Va(MmEkernelPpn - 1, 0),
       perm |-> PTE_R + PTE_W],
      [l |-> Va(MmEkernelPpn - 1, 0), r |-> Va(MmEkernelPpn, 0),
       perm |-> PTE_R + PTE_W],
      [l |-> Va(MmEkernelPpn, 0), r |-> Va(MEMORY_END_PPN, 0),
       perm |-> PTE_R + PTE_W],
      [l |-> Va(65537, 0), r |-> Va(65538, 0), perm |-> PTE_R + PTE_W]>>

\* MemorySet::new_kernel, the pushes
RECURSIVE PushKernelAreas(_, _)
PushKernelAreas(k, i) ==
    IF i > Len(KernelAreas) THEN k
    ELSE Then(MapAreaNew(k, VirtAddrFrom(KernelAreas[i].l),
                         VirtAddrFrom(KernelAreas[i].r), "Identical",
                         KernelAreas[i].perm), LAMBDA n :
         Then(Push(n, 0, 0), LAMBDA pushed : PushKernelAreas(pushed, i + 1)))

\* MemorySet::new_kernel
NewKernel(k) ==
    Then(NewBare(k), LAMBDA bare :
    Then(PageTableMap(bare, Floor(VirtAddrFrom(TRAMPOLINE)), StrampolinePpn,
                      PTE_R + PTE_X), LAMBDA tramp :
         PushKernelAreas(tramp, 1)))

\* sys_mmap, the permission of the new area
MmapPerm(prot) ==
    PTE_U + (IF prot % 2 = 1 THEN PTE_R ELSE 0)
          + (IF (prot \div 2) % 2 = 1 THEN PTE_W ELSE 0)
          + (IF (prot \div 4) % 2 = 1 THEN PTE_X ELSE 0)

\* sys_mmap: ret is the value returned to the user
SysMmap(k, start, len, prot) ==
    IF ~(prot > 0 /\ prot <= 7) \/ ~Aligned(VirtAddrFrom(start)) \/ ~(len > 0)
    THEN Panic(k)
    ELSE IF \E vpn \in VirtPageNumFrom(start) ..
                       (VirtPageNumFrom(UsizeAdd(start, len)) - 1) :
               Translate(k.ptes, k.ms.page_table.root_ppn, vpn) # {}
    THEN [k EXCEPT !.ret = -1]
    ELSE Then(InsertFramedArea(k, VirtAddrFrom(start),
                               VirtAddrFrom(UsizeAdd(start, len)), MmapPerm(prot)),
              LAMBDA m : [m EXCEPT !.ret = 0])

\* sys_munmap, the loop over the areas
RECURSIVE MunmapAreas(_, _, _)
MunmapAreas(k, i, start_vpn) ==
    IF i > Len(k.ms.areas) THEN k
    ELSE IF Contain(k.ms.areas[i], start_vpn)
    THEN Then(UnmapOne(k, i, start_vpn), LAMBDA u :
              MunmapAreas(u, i + 1, start_vpn + 1))
    ELSE MunmapAreas(k, i + 1, start_vpn)

\* sys_munmap: the range test hands the page number to translate through
\* From<usize> for VirtPageNum, which shifts it as an address
SysMunmap(k, start, len) ==
    IF \E vpn \in VirtPageNumFrom(start) ..
                  (VirtPageNumFrom(UsizeAdd(start, len)) - 1) :
          Translate(k.ptes, k.ms.page_table.root_ppn,
                    VirtPageNumFrom(UsizeOf(vpn))) = {}
    THEN [k EXCEPT !.ret = -1]
    ELSE Then(MunmapAreas(k, 1, VirtPageNumFrom(start)),
              LAMBDA m : [m EXCEPT !.ret = 0])

\* The translation the MMU makes of vpn: the leaf entry when all three
\* levels are valid, else 0 (page fault).
MmuPte(mem, root, vpn) ==
    LET ix == Indexes(vpn)
        p0 == PteAt(mem, <<root, ix[1]>>)
        p1 == PteAt(mem, <<PtePpn(p0), ix[2]>>)
        p2 == PteAt(mem, <<PtePpn(p1), ix[3]>>)
    IN  IF PteIsValid(p0) /\ PteIsValid(p1) /\ PteIsValid(p2) THEN p2 ELSE 0

\* The state the kernel operations run on
KNow ==
    [ms |-> memory_set, ptes |-> ptes, fa |-> fa, live |-> live,
     pages |-> pages, area |-> <<>>, panic |-> FALSE, ret |-> 0]

Pre == [ms |-> memory_set, ptes |-> ptes, fa |-> fa, live |-> live]

\* Pages and lengths the task passes to mmap and munmap: 0x514000 of the
\* mmap tests and its neighbour, and 0x15000 right above the user stack.
MmapStarts == {Va(21, 0), Va(1300, 0), Va(1301, 0)}
MmapLens == {100, PAGE_SIZE, 2 * PAGE_SIZE}
MmapProts == {1, 3}

\* ecall SYSCALL_MMAP
SysMmapOp(start, len, prot) ==
    /\ ~panicked
    /\ OnlyMM
    /\ mmaps < MaxMmaps
    /\ \E k \in {SysMmap(KNow, start, len, prot)} :
       /\ memory_set' = k.ms
       /\ ptes' = k.ptes
       /\ fa' = k.fa
       /\ live' = k.live
       /\ pages' = k.pages
       /\ panicked' = k.panic
       /\ last' = [op |-> "mmap", start |-> start, len |-> len, prot |-> prot,
                   ret |-> k.ret, pre |-> Pre]
    /\ mmaps' = mmaps + 1
    /\ UNCHANGED <<trap_cx_ppn, kernel_space>>

\* ecall SYSCALL_MUNMAP
SysMunmapOp(start, len) ==
    /\ ~panicked
    /\ OnlyMM
    /\ \E k \in {SysMunmap(KNow, start, len)} :
       /\ memory_set' = k.ms
       /\ ptes' = k.ptes
       /\ fa' = k.fa
       /\ live' = k.live
       /\ pages' = k.pages
       /\ panicked' = k.panic
       /\ last' = [op |-> "munmap", start |-> start, len |-> len,
                   ret |-> k.ret, pre |-> Pre]
    /\ UNCHANGED <<mmaps, trap_cx_ppn, kernel_space>>

\* A store of the task to a page that the MMU lets it write, as
\* (0x514000 as *mut u8).write(100) of the mmap tests
UserStore(vpn, v) ==
    /\ ~panicked
    /\ OnlyMM
    /\ \E pte \in {MmuPte(ptes, memory_set.page_table.root_ppn, vpn)} :
       /\ PteIsValid(pte)
       /\ HasFlag(PteFlags(pte), PTE_U)
       /\ HasFlag(PteFlags(pte), PTE_W)
       /\ pages[PtePpn(pte)] # v
       /\ pages' = [pages EXCEPT ![PtePpn(pte)] = v]
       /\ last' = [op |-> "store", vpn |-> vpn, value |-> v]
    /\ UNCHANGED <<fa, live, memory_set, ptes, mmaps, trap_cx_ppn, kernel_space,
                   panicked>>

\* TaskControlBlock::new:
\* memory_set.translate(VirtAddr::from(TRAP_CONTEXT).into()).unwrap().ppn()
TrapCxPpn(k) ==
    PtePpn(CHOOSE x \in Translate(k.ptes, k.ms.page_table.root_ppn,
                                  Floor(VirtAddrFrom(TRAP_CONTEXT))) : TRUE)

\* The kernel space that mm::init built at boot and the task right after
\* TaskControlBlock::new built its memory set from the ELF file, on a
\* machine whose free RAM is zero.
InitMM ==
    /\ IdleCache
    /\ IdleBitmap
    /\ IdleTime
    /\ IdleTask
    /\ IdleFs
    /\ IdleFd
    /\ IdleProc
    /\ IdleHanoi
    /\ IdleFTest
    /\ \E kernel \in {NewKernel([ms |-> <<>>, ptes |-> <<>>,
                                  fa |-> [current |-> MmEkernelPpn,
                                          end |-> MEMORY_END_PPN,
                                          recycled |-> <<>>],
                                  live |-> [p \in MmPhysPages |-> 0],
                                  pages |-> [p \in MmPhysPages |-> 0],
                                  area |-> <<>>, panic |-> FALSE, ret |-> 0])} :
       \E k \in {FromElf(kernel, UserElf)} :
          /\ kernel_space = kernel.ms
          /\ memory_set = k.ms
          /\ ptes = k.ptes
          /\ fa = k.fa
          /\ live = k.live
          /\ pages = k.pages
          /\ panicked = k.panic
          /\ trap_cx_ppn = TrapCxPpn(k)
    /\ mmaps = 0
    /\ last = [op |-> "init"]

\* Arguments that sys_mmap's three assertions refuse: prot = 0, prot > 7,
\* start not page-aligned, len = 0.
BadMmapArgs ==
    {[start |-> Va(1300, 0), len |-> 100, prot |-> 0],
     [start |-> Va(1300, 0), len |-> 100, prot |-> 8],
     [start |-> Va(1300, 1), len |-> 100, prot |-> 3],
     [start |-> Va(1300, 0), len |-> 0, prot |-> 3]}

\* mmap and munmap on the two pages at the top of the address space
HighArgs ==
    {[start |-> TRAP_CONTEXT, len |-> 100],
     [start |-> TRAP_CONTEXT, len |-> PAGE_SIZE],
     [start |-> TRAMPOLINE, len |-> 100]}

NextMM ==
    \/ \E start \in MmapStarts, len \in MmapLens, prot \in MmapProts :
          SysMmapOp(start, len, prot)
    \/ \E a \in BadMmapArgs : SysMmapOp(a.start, a.len, a.prot)
    \/ \E a \in HighArgs : SysMmapOp(a.start, a.len, 3)
    \/ \E a \in HighArgs : SysMunmapOp(a.start, a.len)
    \/ \E start \in MmapStarts, len \in MmapLens : SysMunmapOp(start, len)
    \/ \E start \in MmapStarts, v \in Vals \ {0} : UserStore(start.page, v)

SpecMM == InitMM /\ [][NextMM]_vars

\* The calls at the top of the address space, with one ordinary page to
\* map and unmap beside them.
TopStarts == {Va(21, 0)}
TopLens == {100, PAGE_SIZE}

NextTop ==
    \/ \E a \in HighArgs : SysMmapOp(a.start, a.len, 3)
    \/ \E a \in HighArgs : SysMunmapOp(a.start, a.len)
    \/ \E start \in TopStarts, len \in TopLens, prot \in MmapProts :
          SysMmapOp(start, len, prot)
    \/ \E start \in TopStarts, len \in TopLens : SysMunmapOp(start, len)

SpecTop == InitMM /\ [][NextTop]_vars

\* PageTable::map, unmap and translate called on the task's page table
\* directly.  PtVpns has two pages of one leaf table, a page of another
\* leaf table, a page under another root entry, and the trampoline page,
\* which from_elf has mapped.
PtVpns == {1300, 1301, 1300 + PT_ENTRIES, 1300 + PT_ENTRIES * PT_ENTRIES,
           Floor(VirtAddrFrom(TRAMPOLINE))}
PtPpns == {MmEkernelPpn - 1, MEMORY_END_PPN - 1}
PtFlags == {PTE_R, PTE_R + PTE_W + PTE_U}

\* What translate(vpn) reports of each vpn in PtVpns
PtView(mem, root) == [v \in PtVpns |-> Translate(mem, root, v)]

PageTableMapOp(vpn, ppn, flags) ==
    /\ ~panicked
    /\ OnlyMM
    /\ mmaps < MaxMmaps + 1
    /\ \E k \in {PageTableMap(KNow, vpn, ppn, flags)} :
       /\ memory_set' = k.ms
       /\ ptes' = k.ptes
       /\ fa' = k.fa
       /\ live' = k.live
       /\ pages' = k.pages
       /\ panicked' = k.panic
       /\ last' = [op |-> "pt_map", vpn |-> vpn, ppn |-> ppn, flags |-> flags]
    /\ mmaps' = mmaps + 1
    /\ UNCHANGED <<trap_cx_ppn, kernel_space>>

PageTableUnmapOp(vpn) ==
    /\ ~panicked
    /\ OnlyMM
    /\ \E k \in {PageTableUnmap(KNow, vpn)} :
       /\ memory_set' = k.ms
       /\ ptes' = k.ptes
       /\ fa' = k.fa
       /\ live' = k.live
       /\ pages' = k.pages
       /\ panicked' = k.panic
       /\ last' = [op |-> "pt_unmap", vpn |-> vpn]
    /\ UNCHANGED <<mmaps, trap_cx_ppn, kernel_space>>

NextPT ==
    \/ \E vpn \in PtVpns, ppn \in PtPpns, flags \in PtFlags :
          PageTableMapOp(vpn, ppn, flags)
    \/ \E vpn \in PtVpns : PageTableUnmapOp(vpn)

SpecPT == InitMM /\ [][NextPT]_vars

\* TaskControlBlock::new on ELF files whose PT_LOAD segments come in
\* ascending order of address (UserElf), alone, in descending order, and in
\* descending order with the first segment where the stack is put.
ElfFiles ==
    {UserElf,
     <<[virtual_addr |-> Va(16, 0), mem_size |-> 2048, flags |-> PTE_R + PTE_X]>>,
     <<[virtual_addr |-> Va(20, 0), mem_size |-> 2048, flags |-> PTE_R + PTE_W],
       [virtual_addr |-> Va(16, 0), mem_size |-> 2048, flags |-> PTE_R + PTE_X]>>,
     <<[virtual_addr |-> Va(18, 0), mem_size |-> 2048, flags |-> PTE_R + PTE_W],
       [virtual_addr |-> Va(16, 0), mem_size |-> 2048, flags |-> PTE_R + PTE_X]>>}

\* The pages the task of SpecElf stores to.
ElfPages == 16 .. 22

TaskControlBlockNew(elf) ==
    /\ ~panicked
    /\ OnlyMM
    /\ memory_set = <<>>
    /\ \E k \in {FromElf([KNow EXCEPT !.ms = <<>>], elf)} :
       /\ memory_set' = IF k.panic THEN <<>> ELSE k.ms
       /\ ptes' = k.ptes
       /\ fa' = k.fa
       /\ live' = k.live
       /\ pages' = k.pages
       /\ panicked' = k.panic
       /\ trap_cx_ppn' = IF k.panic THEN 0 ELSE TrapCxPpn(k)
       /\ last' = [op |-> "from_elf", elf |-> elf, user_sp |-> k.ret]
    /\ UNCHANGED <<mmaps, kernel_space>>

\* The kernel space that mm::init built at boot, before any task exists.
InitElf ==
    /\ IdleCache
    /\ IdleBitmap
    /\ IdleTime
    /\ IdleTask
    /\ IdleFs
    /\ IdleFd
    /\ IdleProc
    /\ IdleHanoi
    /\ IdleFTest
    /\ \E kernel \in {NewKernel([ms |-> <<>>, ptes |-> <<>>,
                                  fa |-> [current |-> MmEkernelPpn,
                                          end |-> MEMORY_END_PPN,
                                          recycled |-> <<>>],
                                  live |-> [p \in MmPhysPages |-> 0],
                                  pages |-> [p \in MmPhysPages |-> 0],
                                  area |-> <<>>, panic |-> FALSE, ret |-> 0])} :
          /\ kernel_space = kernel.ms
          /\ ptes = kernel.ptes
          /\ fa = kernel.fa
          /\ live = kernel.live
          /\ pages = kernel.pages
          /\ panicked = kernel.panic
    /\ memory_set = <<>>
    /\ trap_cx_ppn = 0
    /\ mmaps = 0
    /\ last = [op |-> "init"]

NextElf ==
    \/ \E elf \in ElfFiles : TaskControlBlockNew(elf)
    \/ \E vpn \in ElfPages, v \in Vals \ {0} : memory_set # <<>> /\ UserStore(vpn, v)
    \/ \E vpn \in ElfPages, prot \in MmapProts :
          memory_set # <<>> /\ SysMmapOp(Va(vpn, 0), PAGE_SIZE, prot)

SpecElf == InitElf /\ [][NextElf]_vars

(***************************************************************************)
(* Claims about sys_mmap                                                   *)
(***************************************************************************)

\* The pages that overlap [start, start + len)
OverlapPages(start, len) == Floor(start) .. Floor(UsizeAdd(start, len - 1))

\* The frames the allocator can still hand out
FreeFrames(a) == (a.end - a.current) + Len(a.recycled)

\* C10: sys_mmap(start, len, prot) with valid arguments, and frames enough
\* for the pages and their page tables, returns -1 and leaves the address
\* space unchanged exactly when a page overlapping [start, start+len) is
\* already mapped; otherwise it returns 0 and every overlapping page is
\* mapped to its own fresh frame with V, U and the bits of prot.
C10_MmapContract ==
    (/\ last.op = "mmap"
     /\ last.prot > 0 /\ last.prot <= 7 /\ Aligned(last.start) /\ last.len > 0
     /\ FreeFrames(last.pre.fa) >= Cardinality(OverlapPages(last.start, last.len)) + 2)
    =>
    LET pre == last.pre
        root == pre.ms.page_table.root_ppn
        over == OverlapPages(last.start, last.len)
        now(v) == MmuPte(ptes, root, v)
    IN  IF \E v \in over : PteIsValid(MmuPte(pre.ptes, root, v))
        THEN /\ ~panicked
             /\ last.ret = -1
             /\ memory_set = pre.ms
             /\ ptes = pre.ptes
        ELSE /\ ~panicked
             /\ last.ret = 0
             /\ \A v \in over :
                   /\ PteIsValid(now(v))
                   /\ PteFlags(now(v)) = PTE_V + PTE_U + 2 * last.prot
                   /\ pre.live[PtePpn(now(v))] = 0
                   /\ live[PtePpn(now(v))] = 1
                   /\ \A w \in over \ {v} : PtePpn(now(w)) # PtePpn(now(v))

\* A call that kept the contract: two pages mapped at 0x514000.
C10_Witness ==
    /\ last.op = "mmap" /\ ~panicked /\ last.ret = 0
    /\ last.len = 2 * PAGE_SIZE
    /\ \A v \in OverlapPages(last.start, last.len) :
          /\ PteIsValid(MmuPte(ptes, memory_set.page_table.root_ppn, v))
          /\ ~PteIsValid(MmuPte(last.pre.ptes, memory_set.page_table.root_ppn, v))

\* A page that is not mapped, in a page table that exists: the call
\* returns -1.
C10_WitnessRefused ==
    /\ last.op = "mmap" /\ ~panicked /\ last.ret = -1
    /\ \A v \in OverlapPages(last.start, last.len) :
          ~PteIsValid(MmuPte(last.pre.ptes, memory_set.page_table.root_ppn, v))

\* A page that is mapped, and a length below one page: the kernel panics.
C10_WitnessPanic ==
    /\ last.op = "mmap" /\ panicked
    /\ last.len < PAGE_SIZE
    /\ PteIsValid(MmuPte(last.pre.ptes, last.pre.ms.page_table.root_ppn,
                         Floor(last.start)))

(***************************************************************************)
(* Claims about sys_munmap                                                 *)
(***************************************************************************)

\* C11: sys_munmap(start, len) returns -1 and changes nothing whenever a
\* page of [start, start+len) is not mapped; it does not panic the kernel.
C11_MunmapContract ==
    (/\ last.op = "munmap"
     /\ \E v \in OverlapPages(last.start, last.len) :
           ~PteIsValid(MmuPte(last.pre.ptes, last.pre.ms.page_table.root_ppn, v)))
    =>
    /\ ~panicked
    /\ last.ret = -1
    /\ memory_set = last.pre.ms
    /\ ptes = last.pre.ptes
    /\ fa = last.pre.fa

\* A munmap of a mapped page that returned 0 and unmapped it.
C11_Witness ==
    /\ last.op = "munmap" /\ ~panicked /\ last.ret = 0
    /\ LET v == Floor(last.start) IN
       /\ PteIsValid(MmuPte(last.pre.ptes, last.pre.ms.page_table.root_ppn, v))
       /\ ~PteIsValid(MmuPte(ptes, memory_set.page_table.root_ppn, v))

\* The second munmap(0x514000, 100) after mmap(0x514000, 100, ..) and a
\* first munmap: the page is not mapped, an area still holds it, the
\* kernel panics.
C11_WitnessPanic ==
    /\ last.op = "munmap" /\ panicked
    /\ last.start = Va(1300, 0) /\ last.len = 100
    /\ ~PteIsValid(MmuPte(last.pre.ptes, last.pre.ms.page_table.root_ppn, 1300))
    /\ \E i \in 1..Len(last.pre.ms.areas) : Contain(last.pre.ms.areas[i], 1300)

\* C12: sys_mmap with bad arguments (prot = 0 or prot > 7, start not
\* page-aligned, len = 0) returns -1, the kernel keeps running and the
\* address space is unchanged.
C12_BadArgsRefused ==
    (/\ last.op = "mmap"
     /\ ~(last.prot > 0 /\ last.prot <= 7 /\ Aligned(last.start) /\ last.len > 0))
    =>
    /\ ~panicked
    /\ last.ret = -1
    /\ memory_set = last.pre.ms
    /\ ptes = last.pre.ptes
    /\ fa = last.pre.fa

\* A call with a start that is not page-aligned, made after a good call.
C12_Witness ==
    /\ last.op = "mmap"
    /\ ~Aligned(last.start)
    /\ mmaps = 2
    /\ memory_set = last.pre.ms /\ ptes = last.pre.ptes

\* C13: translating TRAP_CONTEXT through the task's memory set yields a
\* valid PTE whose PPN is the TCB's trap_cx_ppn, whatever mmap and munmap
\* calls the task has made.
C13_TrapContextMapped ==
    LET pte == MmuPte(ptes, memory_set.page_table.root_ppn, Floor(TRAP_CONTEXT)) IN
    /\ PteIsValid(pte)
    /\ PtePpn(pte) = trap_cx_ppn

\* munmap(TRAP_CONTEXT, 100) returned 0 and the trap-context frame went
\* back to the allocator.
C13_Witness ==
    /\ last.op = "munmap" /\ ~panicked /\ last.ret = 0
    /\ last.start = TRAP_CONTEXT
    /\ ~PteIsValid(MmuPte(ptes, memory_set.page_table.root_ppn, Floor(TRAP_CONTEXT)))
    /\ SeqHas(fa.recycled, trap_cx_ppn)

\* The trap-context page replaced: mapped again, to a frame with U.
C13_WitnessReplaced ==
    LET pte == MmuPte(ptes, memory_set.page_table.root_ppn, Floor(TRAP_CONTEXT)) IN
    /\ PteIsValid(pte)
    /\ HasFlag(PteFlags(pte), PTE_U)

\* Every page of the area's range is mapped valid with the area's
\* permissions, to the frame of the tracker the area stores for it.
AreaMapped(area) ==
    \A v \in area.l .. (area.r - 1) :
        LET pte == MmuPte(ptes, memory_set.page_table.root_ppn, v) IN
        /\ PteIsValid(pte)
        /\ PteFlags(pte) = WithFlag(area.map_perm, PTE_V)
        /\ area.map_type = "Framed" =>
              /\ v \in DOMAIN area.data_frames
              /\ PtePpn(pte) = area.data_frames[v]

\* C14: for every MapArea in the memory set's area list, every VPN of its
\* range is mapped valid in the page table with the area's permissions,
\* and for a Framed area to the PPN of the FrameTracker stored for it.
C14_AreasMapped ==
    ~panicked => \A i \in 1..Len(memory_set.areas) : AreaMapped(memory_set.areas[i])

\* After an mmap of two pages every area is mapped as it declares.
C14_Witness ==
    /\ last.op = "mmap" /\ last.ret = 0 /\ ~panicked
    /\ Len(memory_set.areas) = Len(last.pre.ms.areas) + 1
    /\ LET area == memory_set.areas[Len(memory_set.areas)] IN area.r = area.l + 2
    /\ \A i \in 1..Len(memory_set.areas) : AreaMapped(memory_set.areas[i])

\* After a munmap that returned 0 an area is left whose page is not mapped.
C14_WitnessStale ==
    /\ last.op = "munmap" /\ last.ret = 0 /\ ~panicked
    /\ Len(memory_set.areas) = Len(last.pre.ms.areas)
    /\ \E i \in 1..Len(memory_set.areas) :
          /\ Contain(memory_set.areas[i], Floor(last.start))
          /\ ~AreaMapped(memory_set.areas[i])

\* The page table rooted at root maps TRAMPOLINE to the strampoline page
\* with flags exactly V|R|X.
TrampolineMapped(root) ==
    MmuPte(ptes, root, Floor(TRAMPOLINE)) =
        PteNew(StrampolinePpn, PTE_V + PTE_R + PTE_X)

\* C15: the memory sets built by new_kernel and from_elf map the page
\* TRAMPOLINE to the strampoline page with flags exactly V|R|X, and no
\* mmap or munmap of the task changes or removes the mapping.
C15_TrampolineFixed ==
    /\ TrampolineMapped(kernel_space.page_table.root_ppn)
    /\ TrampolineMapped(memory_set.page_table.root_ppn)

\* munmap(TRAMPOLINE, 100) returned, and munmap has taken the page below.
C15_Witness ==
    /\ last.op = "munmap" /\ last.start = TRAMPOLINE /\ last.ret = 0
    /\ ~PteIsValid(MmuPte(ptes, memory_set.page_table.root_ppn, Floor(TRAP_CONTEXT)))
    /\ TrampolineMapped(memory_set.page_table.root_ppn)

\* mmap(TRAMPOLINE, 100, 3) has been called: the kernel panicked in
\* page_table.map and the entry is as it was.
C15_WitnessMmap ==
    /\ last.op = "mmap" /\ last.start = TRAMPOLINE /\ panicked
    /\ TrampolineMapped(memory_set.page_table.root_ppn)

(***************************************************************************)
(* Per-process run time (os/src/syscall/mod.rs, os/src/task/task.rs)       *)
(***************************************************************************)

\* Number of processes, and the last millisecond the clock reaches.
NumProcs == 2
MaxClock == 3

Pids == 0 .. (NumProcs - 1)
\* The system calls taken: one that returns at once and the one that
\* gives the processor away.
Syscalls == {"get_time", "yield"}

increase_user_timer(tcb, ms) ==
    [tcb EXCEPT !.runtime_in_user = @ + ms]

increase_kernel_timer(tcb, ms) ==
    [tcb EXCEPT !.runtime_in_kernel = @ + ms]

\* The scheduler: the running process goes to the tail of the ready
\* FIFO and the head runs.
Reschedule ==
    \E q \in {Append(ready_queue, running)} :
        /\ running' = Head(q)
        /\ ready_queue' = Tail(q)

\* One millisecond passes on the machine timer, in the mode the running
\* process is in.
Tick ==
    /\ ~panicked /\ OnlyTime
    /\ clock < MaxClock
    /\ clock' = clock + 1
    /\ own' = [own EXCEPT ![running] =
                  IF tcbs[running].at = "user"
                  THEN [@ EXCEPT !.user = @ + 1]
                  ELSE [@ EXCEPT !.kernel = @ + 1]]
    /\ UNCHANGED <<TIMER, tcbs, running, ready_queue, panicked, last>>

\* syscall(), up to the dispatch: the time since TIMER is added to the
\* caller's runtime_in_user and TIMER takes the entry time.
SyscallEnter(id) ==
    /\ ~panicked /\ OnlyTime
    /\ tcbs[running].at = "user"
    /\ \E time_before \in {clock} :
        /\ tcbs' = [tcbs EXCEPT ![running] =
               [increase_user_timer(@, time_before - TIMER) EXCEPT
                   !.at = "handler", !.sys = id,
                   !.time_before = time_before, !.switched = FALSE]]
        /\ last' = [op |-> "syscall_enter", pid |-> running,
                    added |-> time_before - TIMER,
                    mine |-> own[running].user]
        /\ TIMER' = time_before
    /\ own' = [own EXCEPT ![running] = [user |-> 0, kernel |-> 0]]
    /\ UNCHANGED <<clock, running, ready_queue, panicked>>

\* sys_yield inside the handler: suspend_current_and_run_next.
SysYield ==
    /\ ~panicked /\ OnlyTime
    /\ tcbs[running].at = "handler"
    /\ tcbs[running].sys = "yield"
    /\ ~tcbs[running].switched
    /\ tcbs' = [tcbs EXCEPT ![running].switched = TRUE]
    /\ Reschedule
    /\ last' = [op |-> "yield", pid |-> running]
    /\ UNCHANGED <<clock, TIMER, own, panicked>>

\* syscall(), after the dispatch: the time since the entry is added to
\* the caller's runtime_in_kernel and the process returns to user mode.
SyscallReturn ==
    /\ ~panicked /\ OnlyTime
    /\ tcbs[running].at = "handler"
    /\ tcbs[running].sys = "yield" => tcbs[running].switched
    /\ \E time_after \in {clock} :
        /\ tcbs' = [tcbs EXCEPT ![running] =
               [increase_kernel_timer(@, time_after - @.time_before) EXCEPT
                   !.at = "user"]]
        /\ last' = [op |-> "syscall_return", pid |-> running,
                    added |-> time_after - tcbs[running].time_before,
                    mine |-> own[running].kernel]
    /\ UNCHANGED <<clock, TIMER, running, ready_queue, own, panicked>>

\* A timer interrupt in user mode: suspend_current_and_run_next.
TimerInterrupt ==
    /\ ~panicked /\ OnlyTime
    /\ tcbs[running].at = "user"
    /\ Reschedule
    /\ last' = [op |-> "timer", pid |-> running]
    /\ UNCHANGED <<clock, TIMER, tcbs, own, panicked>>

\* The first process has been started after a boot of zero or one
\* millisecond; the others wait in the ready FIFO.
InitTime ==
    /\ clock \in {0, 1}
    /\ TIMER = 0
    /\ tcbs = [p \in Pids |->
                  [runtime_in_user |-> 0, runtime_in_kernel |-> 0,
                   at |-> "user", sys |-> "get_time", time_before |-> 0,
                   switched |-> FALSE]]
    /\ running = 0
    /\ ready_queue = [i \in 1 .. (NumProcs - 1) |-> i]
    /\ own = [p \in Pids |-> [user |-> 0, kernel |-> 0]]
    /\ panicked = FALSE
    /\ last = [op |-> "init"]
    /\ IdleCache
    /\ IdleBitmap
    /\ IdleFrame
    /\ IdleMM
    /\ IdleTask
    /\ IdleFs
    /\ IdleFd
    /\ IdleProc
    /\ IdleHanoi
    /\ IdleFTest

NextTime ==
    \/ Tick
    \/ \E id \in Syscalls : SyscallEnter(id)
    \/ SysYield
    \/ SyscallReturn
    \/ TimerInterrupt

SpecTime == InitTime /\ [][NextTime]_vars

\* C16: at each syscall the amount added to the caller's runtime_in_user
\* is the time the caller itself spent in user mode since its own last
\* kernel entry, and the amount added to runtime_in_kernel is the time the
\* caller spent inside that handler; time of another process and kernel
\* time of an earlier syscall are not charged.
C16_TimeAccounting ==
    last.op \in {"syscall_enter", "syscall_return"} => last.added = last.mine

\* A syscall was entered after the caller ran in user mode, and the amount
\* charged is the caller's own.
C16_Witness ==
    /\ last.op = "syscall_enter"
    /\ last.mine > 0
    /\ last.added = last.mine

\* The caller made two syscalls back to back: the user time charged at the
\* second is the time the first spent in its handler.
C16_WitnessKernelAsUser ==
    /\ last.op = "syscall_enter"
    /\ last.mine = 0
    /\ last.added > 0
    /\ tcbs[last.pid].runtime_in_kernel = last.added

\* A yield returned: the kernel time charged holds the time the other
\* process ran.
C16_WitnessOtherCharged ==
    /\ last.op = "syscall_return"
    /\ tcbs[last.pid].sys = "yield"
    /\ last.added > last.mine

(***************************************************************************)
(* Task manager and sys_taskinfo (os/src/task/mod.rs, syscall/util.rs)     *)
(***************************************************************************)

MAX_APP_NUM == 16

\* Largest number of applications loaded, and the ids user code asks for
\* (user/src/bin/04sleep2.rs asks for 0 .. 19).
MaxApps == 4
AskedIds == 0 .. 19

\* timer.rs: APP_RUNTIME_CNT, (user, kernel) per application.
APP_RUNTIME_CNT == [id \in 0 .. (MAX_APP_NUM - 1) |-> <<0, 0>>]
get_ucnt(id) == APP_RUNTIME_CNT[id][1]
get_kcnt(id) == APP_RUNTIME_CNT[id][2]

\* user_lib::init_task_info
init_task_info == [id |-> 0, status |-> "UnInit", times |-> <<0, 0>>]

\* tasks[id] of the Vec: an index outside it panics.
InTasks(ts, id) == id < Len(ts)

\* get_taskinfo: the TaskInfo of task id, as a set that is empty when the
\* index panics.
get_taskinfo(ts, id) ==
    IF InTasks(ts, id)
    THEN {[id |-> id, status |-> ts[id + 1],
           times |-> <<get_ucnt(id), get_kcnt(id)>>]}
    ELSE {}

\* sys_taskinfo: [panic, ret, info].
sys_taskinfo(ts, id, old) ==
    IF id < MAX_APP_NUM
    THEN IF get_taskinfo(ts, id) = {}
         THEN [panic |-> TRUE, ret |-> {}, info |-> old]
         ELSE [panic |-> FALSE, ret |-> {0},
               info |-> CHOOSE temp \in get_taskinfo(ts, id) : TRUE]
    ELSE [panic |-> FALSE, ret |-> {-1}, info |-> old]

\* A search for the next task that starts at task 0 whatever the current
\* task is.
FindFirstReady(ts, current) ==
    LET hits == {i \in 0 .. (Len(ts) - 1) : ts[i + 1] = "Ready"}
    IN  IF hits = {} THEN {}
        ELSE {CHOOSE i \in hits : \A j \in hits : i <= j}

\* A search that takes the first task after the current one that is not
\* Running, Exited tasks included.
FindNextNotRunning(ts, current) ==
    LET num_app == Len(ts)
        order == [i \in 1 .. num_app |-> (current + i) % num_app]
        hits == {i \in 1 .. num_app : ts[order[i] + 1] # "Running"}
    IN  IF hits = {} THEN {}
        ELSE {order[CHOOSE i \in hits : \A j \in hits : i <= j]}

\* A search over current + 1 .. current + num_app - 1, which leaves the
\* current task out.
FindNextOther(ts, current) ==
    LET num_app == Len(ts)
        order == [i \in 1 .. num_app |-> (current + i) % num_app]
        hits == {i \in 1 .. (num_app - 1) : ts[order[i] + 1] = "Ready"}
    IN  IF hits = {} THEN {}
        ELSE {order[CHOOSE i \in hits : \A j \in hits : i <= j]}

\* TaskManager::find_next_task: the first Ready task after the current
\* one, the current one last; a set that is empty when there is none.
find_next_task(ts, current) ==
    LET num_app == Len(ts)
        order == [i \in 1 .. num_app |-> (current + i) % num_app]
        hits == {i \in 1 .. num_app : ts[order[i] + 1] = "Ready"}
    IN  IF hits = {} THEN {}
        ELSE {order[CHOOSE i \in hits : \A j \in hits : i <= j]}

\* TaskManager::run_next_task: the next task runs; with none Ready the
\* machine is shut down and no task runs.
run_next_task(ts, current) ==
    IF find_next_task(ts, current) = {}
    THEN [tasks |-> ts, current_task |-> current, shutdown |-> TRUE]
    ELSE LET next == CHOOSE n \in find_next_task(ts, current) : TRUE
         IN  [tasks |-> [ts EXCEPT ![next + 1] = "Running"],
              current_task |-> next, shutdown |-> FALSE]

\* A mark_current_suspended that leaves the status as it is.
MarkCurrentStillRunning(ts, current) == ts

\* TaskManager::mark_current_suspended and mark_current_exited
mark_current_suspended(ts, current) == [ts EXCEPT ![current + 1] = "Ready"]
mark_current_exited(ts, current) == [ts EXCEPT ![current + 1] = "Exited"]

\* suspend_current_and_run_next and exit_current_and_run_next
suspend_current_and_run_next(ts, current) ==
    run_next_task(mark_current_suspended(ts, current), current)
exit_current_and_run_next(ts, current) ==
    run_next_task(mark_current_exited(ts, current), current)

TaskRunning == ~panicked /\ tasks[current_task + 1] = "Running"

SysTaskinfoOp(id) ==
    /\ TaskRunning /\ OnlyTask
    /\ \E r \in {sys_taskinfo(tasks, id, info)} :
        /\ info' = r.info
        /\ panicked' = r.panic
        /\ last' = [op |-> "taskinfo", id |-> id, ret |-> r.ret,
                    pre |-> info]
    /\ UNCHANGED <<tasks, current_task>>

\* sys_yield: suspend_current_and_run_next.
TaskYieldOp ==
    /\ TaskRunning /\ OnlyTask
    /\ \E r \in {suspend_current_and_run_next(tasks, current_task)} :
        /\ tasks' = r.tasks
        /\ current_task' = r.current_task
        /\ last' = [op |-> "yield", prev |-> current_task, shutdown |-> r.shutdown]
    /\ UNCHANGED <<info, panicked>>

\* A timer interrupt in user mode: the trap handler sets the next trigger
\* and calls suspend_current_and_run_next.
TaskTick ==
    /\ TaskRunning /\ OnlyTask
    /\ \E r \in {suspend_current_and_run_next(tasks, current_task)} :
        /\ tasks' = r.tasks
        /\ current_task' = r.current_task
        /\ last' = [op |-> "tick", prev |-> current_task, shutdown |-> r.shutdown]
    /\ UNCHANGED <<info, panicked>>

\* sys_exit: exit_current_and_run_next.
TaskExitOp ==
    /\ TaskRunning /\ OnlyTask
    /\ \E r \in {exit_current_and_run_next(tasks, current_task)} :
        /\ tasks' = r.tasks
        /\ current_task' = r.current_task
        /\ last' = [op |-> "exit", prev |-> current_task, shutdown |-> r.shutdown]
    /\ UNCHANGED <<info, panicked>>

\* TASK_MANAGER with 1 .. MaxApps applications loaded, after
\* run_first_task.
InitTask ==
    /\ \E num_app \in 1 .. MaxApps :
        tasks = [i \in 1 .. num_app |-> IF i = 1 THEN "Running" ELSE "Ready"]
    /\ current_task = 0
    /\ info = init_task_info
    /\ panicked = FALSE
    /\ last = [op |-> "init"]
    /\ IdleCache
    /\ IdleBitmap
    /\ IdleFrame
    /\ IdleMM
    /\ IdleTime
    /\ IdleFs
    /\ IdleFd
    /\ IdleProc
    /\ IdleHanoi
    /\ IdleFTest

NextTask ==
    \/ \E id \in AskedIds : SysTaskinfoOp(id)
    \/ TaskYieldOp
    \/ TaskTick
    \/ TaskExitOp

SpecTask == InitTask /\ [][NextTask]_vars

\* The scheduler alone, with tasks that yield, are preempted and exit: the
\* timer keeps interrupting a running task, and a task that is given the
\* processor again and again calls exit in the end.
TaskExitOf(id) == current_task = id /\ TaskExitOp

NextSched ==
    \/ TaskYieldOp
    \/ TaskTick
    \/ \E id \in 0 .. MaxApps : TaskExitOf(id)

SpecSched ==
    /\ InitTask
    /\ [][NextSched]_vars
    /\ WF_vars(TaskTick)
    /\ \A id \in 0 .. MaxApps : SF_vars(TaskExitOf(id))

\* run_next_task has found no Ready task and shut the machine down.
Shutdown == last.op \in {"yield", "tick", "exit"} /\ last.shutdown

\* C17: sys_taskinfo(id, info) returns 0 and fills info for every id that
\* names an existing task; for every other id in [0, 20) it returns -1,
\* leaves info as it was and the kernel does not panic.
C17_TaskinfoContract ==
    last.op = "taskinfo" =>
        IF last.id < Len(tasks)
        THEN /\ last.ret = {0}
             /\ info.id = last.id
             /\ info.status = tasks[last.id + 1]
        ELSE /\ ~panicked
             /\ last.ret = {-1}
             /\ info = last.pre

\* taskinfo of a task other than the caller returned 0 and filled info.
C17_Witness ==
    /\ last.op = "taskinfo"
    /\ last.ret = {0}
    /\ last.id # current_task
    /\ info.id = last.id
    /\ info.status = "Exited"

\* An id of MAX_APP_NUM or more was refused with -1.
C17_WitnessRefused ==
    /\ last.op = "taskinfo"
    /\ last.id >= MAX_APP_NUM
    /\ last.ret = {-1}
    /\ info = last.pre

\* An id below MAX_APP_NUM that names no task: the kernel panicked.
C17_WitnessPanic ==
    /\ last.op = "taskinfo"
    /\ last.id < MAX_APP_NUM
    /\ last.id >= Len(tasks)
    /\ panicked

(***************************************************************************)
(* easy-fs: disk inodes, the root directory and Inode (easy-fs/src/vfs.rs) *)
(* The block cache is transparent here: a block's content is what          *)
(* get_block_cache returns for it.  The operators thread a record          *)
(* f = [ib, db, inodes, mem, panic, ret].                                  *)
(***************************************************************************)

BLOCK_SZ == 512
DIRENT_SZ == 32
NAME_LENGTH_LIMIT == 27
INODE_DIRECT_COUNT == 28
DISK_INODE_SZ == 128

\* Block 0 is the superblock, then the inode bitmap, the inode area, the
\* data bitmap and the data area.
InodeAreaStart == 1 + NBlocks
InodeAreaBlocks == (NBits * DISK_INODE_SZ + BLOCK_SZ - 1) \div BLOCK_SZ
DataAreaStart == InodeAreaStart + InodeAreaBlocks + NBlocks

\* EasyFileSystem::get_disk_inode_pos
get_disk_inode_pos(inode_id) ==
    <<InodeAreaStart + inode_id \div (BLOCK_SZ \div DISK_INODE_SZ),
      (inode_id % (BLOCK_SZ \div DISK_INODE_SZ)) * DISK_INODE_SZ>>

ROOT_INODE == get_disk_inode_pos(0)

\* One byte of a data block, and a store to it.
ByteAt(mem, block, off) ==
    IF <<block, off>> \in DOMAIN mem THEN mem[<<block, off>>] ELSE 0
ByteSet(mem, block, off, v) ==
    IF v = 0 THEN MapRemove(mem, <<block, off>>)
    ELSE MapInsert(mem, <<block, off>>, v)

\* DiskInode::init
DiskInodeInit(type) == [size |-> 0, direct |-> <<>>, type |-> type]

\* The DiskInode a position of the inode area holds; all zeroes when it
\* was never written.
DiskInodeAt(f, pos) ==
    IF pos \in DOMAIN f.inodes THEN f.inodes[pos] ELSE DiskInodeInit("File")

\* DiskInode::data_blocks / total_blocks, for sizes within the direct
\* index.
DataBlocks(size) == (size + BLOCK_SZ - 1) \div BLOCK_SZ

\* DiskInode::blocks_num_needed
blocks_num_needed(di, new_size) == DataBlocks(new_size) - DataBlocks(di.size)

\* EasyFileSystem::alloc_inode: inode_bitmap.alloc(..).unwrap()
AllocInode(f) ==
    Let(BitmapAlloc(f.ib), LAMBDA r :
        IF r.pos = {} THEN [f EXCEPT !.panic = TRUE]
        ELSE [f EXCEPT !.ib = r.bm, !.ret = CHOOSE b \in r.pos : TRUE])

\* EasyFileSystem::alloc_data: data_bitmap.alloc(..).unwrap() + the start
\* of the data area.
AllocData(f) ==
    Let(BitmapAlloc(f.db), LAMBDA r :
        IF r.pos = {} THEN [f EXCEPT !.panic = TRUE]
        ELSE [f EXCEPT !.db = r.bm,
                       !.ret = DataAreaStart + CHOOSE b \in r.pos : TRUE])

\* EasyFileSystem::dealloc_data: the block is zeroed, then its bit cleared.
DeallocData(f, block_id) ==
    Let(BitmapDealloc(f.db, block_id - DataAreaStart), LAMBDA r :
        [f EXCEPT !.mem = [x \in {y \in DOMAIN f.mem : y[1] # block_id} |-> f.mem[x]],
                  !.db = r.bm,
                  !.panic = r.panic])

\* DiskInode::read_at: the bytes read; their number is what read_at
\* returns.
DiskReadAt(mem, di, offset, len) ==
    LET end == IF offset + len < di.size THEN offset + len ELSE di.size IN
    IF offset >= end THEN <<>>
    ELSE [i \in 1 .. (end - offset) |->
             ByteAt(mem, di.direct[(offset + i - 1) \div BLOCK_SZ + 1],
                    (offset + i - 1) % BLOCK_SZ)]

\* The bytes of buf stored from offset on, through the direct index.
DiskWriteBytes(mem, di, offset, buf) ==
    LET key(i) == <<di.direct[(offset + i - 1) \div BLOCK_SZ + 1],
                    (offset + i - 1) % BLOCK_SZ>>
        keys == {key(i) : i \in 1 .. Len(buf)}
        val(x) == buf[CHOOSE i \in 1 .. Len(buf) : key(i) = x]
    IN  [x \in (DOMAIN mem \ keys) \cup {y \in keys : val(y) # 0} |->
            IF x \in keys THEN val(x) ELSE mem[x]]

\* DiskInode::write_at: writes up to size; ret is the number written.
DiskWriteAt(f, di, offset, buf) ==
    Let(IF offset + Len(buf) < di.size THEN offset + Len(buf) ELSE di.size,
        LAMBDA end :
        IF offset > end THEN [f EXCEPT !.panic = TRUE]
        ELSE [f EXCEPT !.mem = DiskWriteBytes(f.mem, di, offset,
                                              SubSeq(buf, 1, end - offset)),
                       !.ret = end - offset])

\* DirEntry::new: the name, zero bytes up to 28, the inode number in four
\* little-endian bytes.
DirEntryNew(name, inode_number) ==
    [j \in 1 .. DIRENT_SZ |->
        IF j <= Len(name) THEN name[j]
        ELSE IF j = NAME_LENGTH_LIMIT + 2 THEN inode_number % 256
        ELSE IF j = NAME_LENGTH_LIMIT + 3 THEN (inode_number \div 256) % 256
        ELSE IF j = NAME_LENGTH_LIMIT + 4 THEN (inode_number \div 65536) % 256
        ELSE 0]

\* DirEntry::name: the bytes before the first zero byte.
DirEntryName(bytes) ==
    LET len == CHOOSE n \in 0 .. NAME_LENGTH_LIMIT :
                   /\ \A j \in 1 .. n : bytes[j] # 0
                   /\ bytes[n + 1] = 0
    IN  SubSeq(bytes, 1, len)

\* DirEntry::inode_number
DirEntryInodeNumber(bytes) ==
    bytes[NAME_LENGTH_LIMIT + 2] + 256 * bytes[NAME_LENGTH_LIMIT + 3]
        + 65536 * bytes[NAME_LENGTH_LIMIT + 4]

\* The directory entry at index i of a directory's DiskInode.
DirentAt(mem, di, i) == DiskReadAt(mem, di, DIRENT_SZ * i, DIRENT_SZ)

\* Inode::find_inode_id: {} for None, the inode number of the first entry
\* whose name matches otherwise.
FindInodeId(mem, name, disk_inode) ==
    LET file_count == disk_inode.size \div DIRENT_SZ
        hits == {i \in 0 .. (file_count - 1) :
                    DirEntryName(DirentAt(mem, disk_inode, i)) = name}
    IN  IF hits = {} THEN {}
        ELSE {DirEntryInodeNumber(
                 DirentAt(mem, disk_inode,
                          CHOOSE i \in hits : \A j \in hits : i <= j))}

\* Inode::find on the root inode: {} for None, else the position of the
\* inode found.
Find(f, name) ==
    {get_disk_inode_pos(id) :
        id \in FindInodeId(f.mem, name, DiskInodeAt(f, ROOT_INODE))}

RECURSIVE AllocBlocks(_, _, _)
\* The loop of Inode::increase_size: n blocks from alloc_data, in order.
AllocBlocks(f, n, v) ==
    IF n <= 0 THEN [f EXCEPT !.ret = v]
    ELSE Then(AllocData(f), LAMBDA a : AllocBlocks(a, n - 1, Append(v, a.ret)))

\* DiskInode::increase_size within the direct index.
DiskIncreaseSize(di, new_size, new_blocks) ==
    [di EXCEPT !.size = new_size, !.direct = @ \o new_blocks]

IncreaseSizeAlways(f, pos, new_size) ==
    Then(AllocBlocks(f, blocks_num_needed(DiskInodeAt(f, pos), new_size), <<>>),
         LAMBDA a :
             [a EXCEPT !.inodes = MapInsert(@, pos,
                 DiskIncreaseSize(DiskInodeAt(f, pos), new_size, a.ret))])

IncreaseSizeNever(f, pos, new_size) == f

\* Inode::increase_size on the DiskInode at pos.
IncreaseSize(f, pos, new_size) ==
    IF new_size < DiskInodeAt(f, pos).size THEN f
    ELSE IncreaseSizeAlways(f, pos, new_size)

\* Inode::read_at
InodeReadAt(f, pos, offset, len) ==
    DiskReadAt(f.mem, DiskInodeAt(f, pos), offset, len)

\* Inode::write_at
InodeWriteAt(f, pos, offset, buf) ==
    Then(IncreaseSize(f, pos, offset + Len(buf)), LAMBDA a :
         DiskWriteAt(a, DiskInodeAt(a, pos), offset, buf))

CreateAnyway(f, name) ==
    Then(AllocInode(f), LAMBDA a :
    Let(a.ret, LAMBDA new_inode_id :
    Let(DiskInodeAt(a, ROOT_INODE).size, LAMBDA old_size :
    Then(IncreaseSize(
             [a EXCEPT !.inodes = MapInsert(@, get_disk_inode_pos(new_inode_id),
                                            DiskInodeInit("File"))],
             ROOT_INODE, old_size + 32),
         LAMBDA b :
    Then(DiskWriteAt(b, DiskInodeAt(b, ROOT_INODE), old_size,
                     DirEntryNew(name, new_inode_id)),
         LAMBDA c : [c EXCEPT !.ret = {get_disk_inode_pos(new_inode_id)}])))))

\* Inode::create on the root inode: ret is {} for None, else the position
\* of the new inode.
Create(f, name) ==
    IF DiskInodeAt(f, ROOT_INODE).type # "Directory"
    THEN [f EXCEPT !.panic = TRUE]
    ELSE IF FindInodeId(f.mem, name, DiskInodeAt(f, ROOT_INODE)) # {}
         THEN [f EXCEPT !.ret = {}]
         ELSE CreateAnyway(f, name)

RECURSIVE DeallocAll(_, _, _)
\* The loop of Inode::clear: dealloc_data for every block returned.
DeallocAll(f, data_blocks, i) ==
    IF i > Len(data_blocks) THEN f
    ELSE Then(DeallocData(f, data_blocks[i]),
              LAMBDA a : DeallocAll(a, data_blocks, i + 1))

\* Inode::clear: DiskInode::clear_size, then every block it returned is
\* given back.
Clear(f, pos) ==
    Let(DiskInodeAt(f, pos), LAMBDA di :
        IF Len(di.direct) # DataBlocks(di.size)
        THEN [f EXCEPT !.panic = TRUE]
        ELSE DeallocAll(
                 [f EXCEPT !.inodes = MapInsert(@, pos,
                     [di EXCEPT !.size = 0, !.direct = <<>>])],
                 di.direct, 1))

\* The closure of Inode::unlink over the root DiskInode: the first entry
\* with the name is overwritten with zeroes.
ZeroDirent(f, name) ==
    Let(DiskInodeAt(f, ROOT_INODE), LAMBDA root :
    Let({i \in 0 .. (root.size \div DIRENT_SZ - 1) :
            DirEntryName(DirentAt(f.mem, root, i)) = name},
        LAMBDA hits :
        IF hits = {} THEN f
        ELSE DiskWriteAt(f, root,
                 DIRENT_SZ * (CHOOSE i \in hits : \A j \in hits : i <= j),
                 [j \in 1 .. DIRENT_SZ |-> 0])))

\* Inode::unlink on the root inode.
Unlink(f, name) ==
    IF Find(f, name) = {} THEN [f EXCEPT !.panic = TRUE]
    ELSE Then(Clear(f, CHOOSE pos \in Find(f, name) : TRUE),
              LAMBDA a : ZeroDirent(a, name))

\* Inode::ls on the root inode: the name of every slot below size, in slot
\* order; the call panics when a slot cannot be read whole.
Ls(f) ==
    Let(DiskInodeAt(f, ROOT_INODE), LAMBDA disk_inode :
        IF \E i \in 0 .. (disk_inode.size \div DIRENT_SZ - 1) :
               Len(DirentAt(f.mem, disk_inode, i)) # DIRENT_SZ
        THEN [f EXCEPT !.panic = TRUE]
        ELSE [f EXCEPT !.ret =
                 [i \in 1 .. (disk_inode.size \div DIRENT_SZ) |->
                     DirEntryName(DirentAt(f.mem, disk_inode, i - 1))]])

\* Inode::linkat: the target's DiskInode bytes are copied over self's.
Linkat(f, self, target) ==
    [f EXCEPT !.inodes = MapInsert(@, self, DiskInodeAt(f, target))]

\* sys_linkat(src, target), with old_name read from src and new_name from
\* target.
SysLinkat(f, old_name, new_name) ==
    IF old_name = new_name THEN [f EXCEPT !.ret = -1]
    ELSE IF Find(f, old_name) = {} THEN [f EXCEPT !.panic = TRUE]
    ELSE Let(CHOOSE pos \in Find(f, old_name) : TRUE, LAMBDA old_inode :
         Then(Create(f, new_name), LAMBDA a :
              IF a.ret = {} THEN [a EXCEPT !.panic = TRUE]
              ELSE [Linkat(a, CHOOSE pos \in a.ret : TRUE, old_inode)
                       EXCEPT !.ret = 0]))

\* sys_unlinkat(path)
SysUnlinkat(f, name) ==
    IF Find(f, name) = {} THEN [f EXCEPT !.ret = -1]
    ELSE Let(CHOOSE pos \in Find(f, name) : TRUE, LAMBDA inode :
         Then(Unlink(f, name), LAMBDA a :
              IF Len(InodeReadAt(a, inode, 0, BLOCK_SZ)) # 0
              THEN [a EXCEPT !.panic = TRUE]
              ELSE [a EXCEPT !.ret = 0]))

\* Most files created in one run, the names, offsets and buffers callers
\* pass.
MaxFiles == 2
Names == {<<>>, <<1>>, <<2>>}
FileOffsets == {0, 1, BLOCK_SZ - 1}
WriteBufs == {<<>>, <<1>>, <<MaxVal, 1>>}
ReadLens == {0, 2}

FNow ==
    [ib |-> inode_bitmap, db |-> data_bitmap, inodes |-> disk_inodes,
     mem |-> blocks, panic |-> FALSE, ret |-> 0]

FsBecomes(f) ==
    /\ inode_bitmap' = f.ib
    /\ data_bitmap' = f.db
    /\ disk_inodes' = f.inodes
    /\ blocks' = f.mem
    /\ panicked' = f.panic

\* The inode number the next alloc_inode gives is one a file may take; a call
\* that allocates no inode is taken whether or not one is left.
InodeLeft == \A b \in BitmapAlloc(inode_bitmap).pos : b <= MaxFiles

\* The handle of an inode that create has returned.
Created(inode_id) ==
    /\ inode_id \in 1 .. MaxFiles
    /\ inode_id \notin BitmapAlloc(inode_bitmap).pos
    /\ \A b \in BitmapAlloc(inode_bitmap).pos : inode_id < b

\* ROOT_INODE.create(name)
CreateOp(name) ==
    /\ ~panicked /\ OnlyFs
    /\ \E f \in {Create(FNow, name)} :
        /\ InodeLeft \/ f.ib = inode_bitmap
        /\ FsBecomes(f)
        /\ exist' = IF ~f.panic /\ f.ret # {} THEN exist \cup {name} ELSE exist
        /\ last' = [op |-> "create", name |-> name,
                    ret |-> IF f.panic THEN {} ELSE f.ret]

\* inode.write_at(offset, buf) on a created file
WriteAtOp(inode_id, offset, buf) ==
    /\ ~panicked /\ OnlyFs
    /\ Created(inode_id)
    /\ \E f \in {InodeWriteAt(FNow, get_disk_inode_pos(inode_id), offset, buf)} :
        /\ FsBecomes(f)
        /\ UNCHANGED exist
        /\ last' = [op |-> "write_at", inode |-> get_disk_inode_pos(inode_id),
                    offset |-> offset, buf |-> buf,
                    ret |-> IF f.panic THEN {} ELSE {f.ret}]

\* inode.read_at(offset, buf) on a created file
ReadAtOp(inode_id, offset, len) ==
    /\ ~panicked /\ OnlyFs
    /\ Created(inode_id)
    /\ last' = [op |-> "read_at", inode |-> get_disk_inode_pos(inode_id),
                offset |-> offset, len |-> len,
                bytes |-> InodeReadAt(FNow, get_disk_inode_pos(inode_id), offset, len)]
    /\ UNCHANGED <<fsVars, panicked>>

\* ROOT_INODE.ls()
LsOp ==
    /\ ~panicked /\ OnlyFs
    /\ \E f \in {Ls(FNow)} :
        /\ panicked' = f.panic
        /\ last' = [op |-> "ls", names |-> IF f.panic THEN <<>> ELSE f.ret]
    /\ UNCHANGED fsVars

SysLinkatOp(old_name, new_name) ==
    /\ ~panicked /\ OnlyFs
    /\ \E f \in {SysLinkat(FNow, old_name, new_name)} :
        /\ InodeLeft \/ f.ib = inode_bitmap
        /\ FsBecomes(f)
        /\ exist' = IF ~f.panic /\ f.ret = 0 THEN exist \cup {new_name} ELSE exist
        /\ last' = [op |-> "linkat", old |-> old_name, new |-> new_name,
                    ret |-> IF f.panic THEN {} ELSE {f.ret}]

SysUnlinkatOp(name) ==
    /\ ~panicked /\ OnlyFs
    /\ \E f \in {SysUnlinkat(FNow, name)} :
        /\ FsBecomes(f)
        /\ exist' = IF ~f.panic /\ f.ret = 0 THEN exist \ {name} ELSE exist
        /\ last' = [op |-> "unlinkat", name |-> name,
                    ret |-> IF f.panic THEN {} ELSE {f.ret},
                    linked |-> (last.op = "linkat" /\ last.ret = {0}
                                /\ last.new = name)]

\* A file system made by EasyFileSystem::create: inode 0 is the root
\* directory, with no entries.
InitFs ==
    /\ inode_bitmap = PrefixBitmap(1)
    /\ data_bitmap = PrefixBitmap(0)
    /\ disk_inodes = MapInsert(<<>>, ROOT_INODE, DiskInodeInit("Directory"))
    /\ blocks = <<>>
    /\ exist = {}
    /\ panicked = FALSE
    /\ last = [op |-> "init"]
    /\ IdleCache
    /\ IdleBitmap
    /\ IdleFrame
    /\ IdleMM
    /\ IdleTime
    /\ IdleTask
    /\ IdleFd
    /\ IdleProc
    /\ IdleHanoi
    /\ IdleFTest

\* The directory operations, with a write that gives a file content.
DirBufs == {<<1>>, <<2, 1>>}

NextFsDir ==
    \/ \E name \in Names : CreateOp(name)
    \/ \E inode_id \in 1 .. MaxFiles, buf \in DirBufs : WriteAtOp(inode_id, 0, buf)
    \/ \E old_name \in Names, new_name \in Names : SysLinkatOp(old_name, new_name)
    \/ \E name \in Names : SysUnlinkatOp(name)

SpecFsDir == InitFs /\ [][NextFsDir]_vars

\* Creation, removal and listing of files with non-empty names.
FileNames == {<<1>>, <<2>>, <<1, 2>>, <<2, 1>>}

NextFsLs ==
    \/ \E name \in FileNames : CreateOp(name)
    \/ \E name \in FileNames : SysUnlinkatOp(name)
    \/ LsOp

SpecFsLs == InitFs /\ [][NextFsLs]_vars

\* Reads and writes of the first file created.
NextFsData ==
    \/ \E name \in Names : CreateOp(name)
    \/ \E offset \in FileOffsets, buf \in WriteBufs : WriteAtOp(1, offset, buf)
    \/ \E offset \in FileOffsets, len \in ReadLens : ReadAtOp(1, offset, len)

SpecFsData == InitFs /\ [][NextFsData]_vars

\* Every byte of the file at pos.
Content(f, pos) == InodeReadAt(f, pos, 0, DiskInodeAt(f, pos).size)

\* C18: after linkat(old, new) with old existing and new absent, find(new)
\* succeeds and reading new returns old's bytes byte for byte; after
\* unlinkat(new) has returned 0, find(new) fails.
C18_LinkScenario ==
    /\ (last.op = "linkat" /\ last.ret = {0}) =>
           /\ Find(FNow, last.new) # {}
           /\ \A n \in Find(FNow, last.new), o \in Find(FNow, last.old) :
                  Content(FNow, n) = Content(FNow, o)
    /\ (last.op = "unlinkat" /\ last.linked /\ last.ret = {0}) =>
           Find(FNow, last.name) = {}

\* A file with content was linked under a second name.
C18_Witness ==
    /\ last.op = "linkat" /\ last.ret = {0}
    /\ last.new # <<>>
    /\ \E n \in Find(FNow, last.new) : Len(Content(FNow, n)) = 2

\* The link was unlinked and its name is gone.
C18_WitnessUnlinked ==
    /\ last.op = "unlinkat" /\ last.linked /\ last.ret = {0}
    /\ last.name # <<>>
    /\ Find(FNow, last.name) = {}

\* The link with the empty name was unlinked and the empty name is found.
C18_WitnessEmptyName ==
    /\ last.op = "unlinkat" /\ last.linked /\ last.ret = {0}
    /\ last.name = <<>>
    /\ Find(FNow, last.name) = {ROOT_INODE}

\* C19: write_at(O, buf) of N bytes returns N and leaves the inode with
\* size >= O + N, and a read_at(O, N bytes) that follows returns the same
\* N bytes; read_at at an offset >= size returns 0 bytes.
C19_WriteReadRoundTrip ==
    /\ last.op = "write_at" =>
           /\ ~panicked
           /\ last.ret = {Len(last.buf)}
           /\ DiskInodeAt(FNow, last.inode).size >= last.offset + Len(last.buf)
           /\ InodeReadAt(FNow, last.inode, last.offset, Len(last.buf)) = last.buf
    /\ (last.op = "read_at"
          /\ last.offset >= DiskInodeAt(FNow, last.inode).size) =>
           last.bytes = <<>>

\* Two bytes were written across the end of the first block of a file
\* and read back.
C19_Witness ==
    /\ last.op = "write_at"
    /\ last.offset = BLOCK_SZ - 1
    /\ last.ret = {2}
    /\ DiskInodeAt(FNow, last.inode).size = BLOCK_SZ + 1
    /\ Len(DiskInodeAt(FNow, last.inode).direct) = 2
    /\ InodeReadAt(FNow, last.inode, last.offset, 2) = last.buf

\* A read of two bytes at the end of a file that has bytes returned none.
C19_WitnessPastEnd ==
    /\ last.op = "read_at"
    /\ last.len = 2
    /\ DiskInodeAt(FNow, last.inode).size = 1
    /\ last.offset = 1
    /\ last.bytes = <<>>

\* The entries of the root directory, in order.
Dirents ==
    [i \in 1 .. (DiskInodeAt(FNow, ROOT_INODE).size \div DIRENT_SZ) |->
        DirentAt(blocks, DiskInodeAt(FNow, ROOT_INODE), i - 1)]

\* C20: create(name) returns None and changes neither the root directory
\* nor either bitmap when an entry with that name exists; otherwise it
\* allocates one inode, appends exactly one 32-byte entry (the root's size
\* grows by 32) and a find(name) that follows returns that inode.  So no
\* two entries of the directory carry the same non-empty name.
C20_CreateContract ==
    /\ [][last'.op = "create" =>
            IF FindInodeId(blocks, last'.name, DiskInodeAt(FNow, ROOT_INODE)) # {}
            THEN /\ last'.ret = {}
                 /\ Dirents' = Dirents
                 /\ DiskInodeAt(FNow, ROOT_INODE)' = DiskInodeAt(FNow, ROOT_INODE)
                 /\ inode_bitmap' = inode_bitmap
                 /\ data_bitmap' = data_bitmap
            ELSE \E id \in BitmapAlloc(inode_bitmap).pos :
                 /\ last'.ret = {get_disk_inode_pos(id)}
                 /\ inode_bitmap' = BitmapAlloc(inode_bitmap).bm
                 /\ DiskInodeAt(FNow, ROOT_INODE)'.size =
                        DiskInodeAt(FNow, ROOT_INODE).size + DIRENT_SZ
                 /\ Dirents' = Append(Dirents, DirEntryNew(last'.name, id))
                 /\ Find(FNow, last.name)' = last'.ret]_vars
    /\ [](\A i, j \in DOMAIN Dirents :
             (i # j /\ DirEntryName(Dirents[i]) = DirEntryName(Dirents[j]))
                 => DirEntryName(Dirents[i]) = <<>>)

\* create of a name that is in the directory returned None.
C20_Witness ==
    /\ last.op = "create"
    /\ last.name # <<>>
    /\ last.ret = {}
    /\ Find(FNow, last.name) # {}

\* create of a second name returned the new inode, at the second entry.
C20_WitnessCreated ==
    /\ last.op = "create"
    /\ last.ret = {get_disk_inode_pos(2)}
    /\ Len(Dirents) = 2
    /\ Find(FNow, last.name) = last.ret

(***************************************************************************)
(* Open files (os/src/syscall/fs.rs over os/src/fs)                        *)
(*                                                                         *)
(* A process is a record p = [tab, names, f]: its fd_table, its            *)
(* fd_name_map and the file system f its calls act on; the outcome of a    *)
(* call is in f.panic and f.ret.  OpenFlags are sets of flag names, with   *)
(* "invalid" for any bit from_bits does not know.  User buffers and paths  *)
(* are taken to be mapped.                                                 *)
(***************************************************************************)

Stdin == [kind |-> "Stdin", readable |-> TRUE, writable |-> FALSE,
          inode |-> {}, offset |-> 0]
Stdout == [kind |-> "Stdout", readable |-> FALSE, writable |-> TRUE,
           inode |-> {}, offset |-> 0]

\* OpenFlags::read_write and OSInode::new
OSInodeNew(flags, pos) ==
    [kind |-> "OSInode",
     readable |-> "WRONLY" \notin flags,
     writable |-> ("WRONLY" \in flags \/ "RDWR" \in flags),
     inode |-> {pos}, offset |-> 0]

\* open_file(path, flags): ret is {} for None, {file} otherwise.
open_file(f, path, flags) ==
    Let(Find(f, path), LAMBDA found :
    Then(IF found = {} /\ "CREATE" \in flags THEN Create(f, path)
         ELSE [f EXCEPT !.ret = found],
         LAMBDA a :
         IF a.ret = {} THEN a
         ELSE Then(IF "TRUNC" \in flags
                   THEN Clear(a, CHOOSE pos \in a.ret : TRUE)
                   ELSE a,
                   LAMBDA b :
                   [b EXCEPT !.ret =
                       {OSInodeNew(flags, CHOOSE pos \in a.ret : TRUE)}])))

\* TaskControlBlockInner::alloc_fd: the lowest free slot, or a new one at
\* the end of the table.  The slot is index fd + 1 of the sequence.
alloc_fd(tab) ==
    IF \E i \in DOMAIN tab : tab[i] = {}
    THEN [tab |-> tab,
          fd |-> (CHOOSE i \in DOMAIN tab :
                     tab[i] = {} /\ \A j \in DOMAIN tab : tab[j] = {} => i <= j) - 1]
    ELSE [tab |-> Append(tab, {}), fd |-> Len(tab)]

\* sys_open(path, flags)
sys_open(p, path, flags) ==
    IF "invalid" \in flags THEN [p EXCEPT !.f.panic = TRUE]
    ELSE Let(open_file(p.f, path, flags), LAMBDA a :
         IF a.panic THEN [p EXCEPT !.f = a]
         ELSE IF a.ret = {} THEN [p EXCEPT !.f = [a EXCEPT !.ret = -1]]
         ELSE Let(alloc_fd(p.tab), LAMBDA n :
              [tab |-> [n.tab EXCEPT ![n.fd + 1] = a.ret],
               names |-> MapInsert(p.names, n.fd, path),
               f |-> [a EXCEPT !.ret = n.fd]]))

\* A sys_close that takes the slot and leaves the name of the fd behind.
SysCloseLeavesName(p, fd) ==
    IF fd >= Len(p.tab) THEN [p EXCEPT !.f.ret = -1]
    ELSE IF p.tab[fd + 1] = {} THEN [p EXCEPT !.f.ret = -1]
    ELSE [p EXCEPT !.tab[fd + 1] = {}, !.f.ret = 0]

\* sys_close(fd), fd a usize
sys_close(p, fd) ==
    IF fd >= Len(p.tab) THEN [p EXCEPT !.f.ret = -1]
    ELSE IF p.tab[fd + 1] = {} THEN [p EXCEPT !.f.ret = -1]
    ELSE [tab |-> [p.tab EXCEPT ![fd + 1] = {}],
          names |-> MapRemove(p.names, fd),
          f |-> [p.f EXCEPT !.ret = 0]]

\* File::write of the file in slot fd: Stdout prints the buffer, an OSInode
\* writes it at its offset and moves the offset on.
FileWrite(p, fd, buf) ==
    Let(CHOOSE file \in p.tab[fd + 1] : TRUE, LAMBDA file :
        IF file.kind # "OSInode" THEN [p EXCEPT !.f.ret = Len(buf)]
        ELSE Let(InodeWriteAt(p.f, CHOOSE pos \in file.inode : TRUE,
                              file.offset, buf),
             LAMBDA a :
             IF a.panic THEN [p EXCEPT !.f = a]
             ELSE IF a.ret # Len(buf) THEN [p EXCEPT !.f = [a EXCEPT !.panic = TRUE]]
             ELSE [p EXCEPT !.f = a,
                            !.tab[fd + 1] =
                                {[file EXCEPT !.offset = @ + a.ret]}]))

\* File::read of the file in slot fd: Stdin delivers one character, an
\* OSInode the bytes at its offset, moving the offset on.
FileRead(p, fd, len) ==
    Let(CHOOSE file \in p.tab[fd + 1] : TRUE, LAMBDA file :
        IF file.kind # "OSInode"
        THEN IF len = 1 THEN [p EXCEPT !.f.ret = 1] ELSE [p EXCEPT !.f.panic = TRUE]
        ELSE Let(InodeReadAt(p.f, CHOOSE pos \in file.inode : TRUE,
                             file.offset, len),
             LAMBDA bytes :
             [p EXCEPT !.f.ret = Len(bytes),
                       !.tab[fd + 1] =
                           {[file EXCEPT !.offset = @ + Len(bytes)]}]))

\* sys_write(fd, buf, len)
sys_write(p, fd, buf) ==
    IF fd >= Len(p.tab) THEN [p EXCEPT !.f.ret = -1]
    ELSE IF p.tab[fd + 1] = {} THEN [p EXCEPT !.f.ret = -1]
    ELSE IF \A file \in p.tab[fd + 1] : ~file.writable THEN [p EXCEPT !.f.ret = -1]
    ELSE FileWrite(p, fd, buf)

\* sys_read(fd, buf, len)
sys_read(p, fd, len) ==
    IF fd >= Len(p.tab) THEN [p EXCEPT !.f.ret = -1]
    ELSE IF p.tab[fd + 1] = {} THEN [p EXCEPT !.f.ret = -1]
    ELSE IF \A file \in p.tab[fd + 1] : ~file.readable THEN [p EXCEPT !.f.ret = -1]
    ELSE FileRead(p, fd, len)

\* `fd as usize` of an i32: a negative fd becomes an index of 2^64 - |fd|,
\* which is past the end of every table.
FdIndexInTable(tab, fd) == fd >= 0 /\ fd < Len(tab)

\* sys_fstat(fd, st): st is the Stat written, {} when none was.
sys_fstat(p, fd, st_mapped) ==
    IF ~st_mapped THEN [p EXCEPT !.f.panic = TRUE]
    ELSE IF ~FdIndexInTable(p.tab, fd) THEN [p EXCEPT !.f.panic = TRUE]
    ELSE IF p.tab[fd + 1] = {} THEN [p EXCEPT !.f.ret = -1]
    ELSE IF fd \notin DOMAIN p.names THEN [p EXCEPT !.f.panic = TRUE]
    ELSE IF Find(p.f, p.names[fd]) = {} THEN [p EXCEPT !.f.panic = TRUE]
    ELSE [p EXCEPT !.f.ret = 0]

\* The Stat sys_fstat writes for the file a name resolves to.
StatOf(f, name) ==
    Let(DiskInodeAt(f, CHOOSE pos \in Find(f, name) : TRUE), LAMBDA disk_inode :
        [dev |-> 0, ino |-> disk_inode.size,
         mode |-> IF disk_inode.type = "File" THEN "FILE" ELSE "DIR",
         nlink |-> 0])

\* Most slots a table has past the three of stdio, the furthest offset an
\* open file is moved to, and the arguments callers pass.
MaxFds == 1
MaxOffset == 1
Paths == {<<1>>}
FlagSets == {{}, {"WRONLY"}, {"RDWR"}, {"CREATE", "WRONLY"}, {"TRUNC", "RDWR"},
             {"invalid"}}
\* A negative fd, a stdio fd, the first fd of a file and the first fd past
\* the largest table.
AskedFds == {-1, 0, 3, 3 + MaxFds}

PNow == [tab |-> fd_table, names |-> fd_name_map, f |-> FNow]

PBecomes(p) ==
    /\ fd_table' = p.tab
    /\ fd_name_map' = p.names
    /\ FsBecomes(p.f)
    /\ exist' = {name \in exist \cup Paths : Find(p.f, name) # {}}

\* What slot fd of the table holds, for the record of a call.
SlotKind(fd) ==
    IF ~FdIndexInTable(fd_table, fd) THEN "outside"
    ELSE IF fd_table[fd + 1] = {} THEN "empty"
    ELSE (CHOOSE file \in fd_table[fd + 1] : TRUE).kind

SysOpenOp(path, flags) ==
    /\ ~panicked /\ OnlyFd
    /\ \E p \in {sys_open(PNow, path, flags)} :
        /\ InodeLeft \/ p.f.ib = inode_bitmap
        /\ Len(p.tab) <= 3 + MaxFds
        /\ PBecomes(p)
        /\ last' = [op |-> "open", path |-> path, flags |-> flags,
                    ret |-> IF p.f.panic THEN {} ELSE {p.f.ret}]

SysCloseOp(fd) ==
    /\ ~panicked /\ OnlyFd
    /\ \E p \in {sys_close(PNow, fd)} :
        /\ PBecomes(p)
        /\ last' = [op |-> "close", fd |-> fd, slot |-> SlotKind(fd),
                    ret |-> IF p.f.panic THEN {} ELSE {p.f.ret}]

SysWriteOp(fd, buf) ==
    /\ ~panicked /\ OnlyFd
    /\ \E p \in {sys_write(PNow, fd, buf)} :
        /\ \A i \in DOMAIN p.tab : \A file \in p.tab[i] : file.offset <= MaxOffset
        /\ PBecomes(p)
        /\ last' = [op |-> "write", fd |-> fd, slot |-> SlotKind(fd),
                    ret |-> IF p.f.panic THEN {} ELSE {p.f.ret}]

SysReadOp(fd, len) ==
    /\ ~panicked /\ OnlyFd
    /\ \E p \in {sys_read(PNow, fd, len)} :
        /\ PBecomes(p)
        /\ last' = [op |-> "read", fd |-> fd, slot |-> SlotKind(fd),
                    ret |-> IF p.f.panic THEN {} ELSE {p.f.ret}]

SysFstatOp(fd, st_mapped) ==
    /\ ~panicked /\ OnlyFd
    /\ \E p \in {sys_fstat(PNow, fd, st_mapped)} :
        /\ PBecomes(p)
        /\ last' = [op |-> "fstat", fd |-> fd, slot |-> SlotKind(fd),
                    st_mapped |-> st_mapped,
                    ret |-> IF p.f.panic THEN {} ELSE {p.f.ret},
                    st |-> IF ~p.f.panic /\ p.f.ret = 0
                           THEN {StatOf(FNow, fd_name_map[fd])} ELSE {}]

\* The task's table after TaskControlBlock::new on a fresh file system.
InitFd ==
    /\ inode_bitmap = PrefixBitmap(1)
    /\ data_bitmap = PrefixBitmap(0)
    /\ disk_inodes = MapInsert(<<>>, ROOT_INODE, DiskInodeInit("Directory"))
    /\ blocks = <<>>
    /\ exist = {}
    /\ fd_table = <<{Stdin}, {Stdout}, {Stdout}>>
    /\ fd_name_map = <<>>
    /\ panicked = FALSE
    /\ last = [op |-> "init"]
    /\ IdleCache
    /\ IdleBitmap
    /\ IdleFrame
    /\ IdleMM
    /\ IdleTime
    /\ IdleTask
    /\ IdleProc
    /\ IdleHanoi
    /\ IdleFTest

NextFd ==
    \/ \E path \in Paths, flags \in FlagSets : SysOpenOp(path, flags)
    \/ \E fd \in AskedFds \ {-1} : SysCloseOp(fd)
    \/ \E fd \in AskedFds \ {-1} : SysWriteOp(fd, <<1>>)
    \/ \E fd \in AskedFds \ {-1} : SysReadOp(fd, 1)
    \/ \E fd \in AskedFds, st_mapped \in BOOLEAN : SysFstatOp(fd, st_mapped)
    \/ \E name \in Paths : SysUnlinkatOp(name) /\ UNCHANGED fdVars

SpecFd == InitFd /\ [][NextFd]_vars

\* The calls that go through the fd table alone.
NextFdTable ==
    \/ \E path \in Paths, flags \in FlagSets : SysOpenOp(path, flags)
    \/ \E fd \in AskedFds \ {-1} : SysCloseOp(fd)
    \/ \E fd \in AskedFds \ {-1} : SysWriteOp(fd, <<1>>)
    \/ \E fd \in AskedFds \ {-1} : SysReadOp(fd, 1)

SpecFdTable == InitFd /\ [][NextFdTable]_vars

(***************************************************************************)
(* Locks taken by the inode layer (easy-fs/src/vfs.rs, block_cache.rs)     *)
(*                                                                         *)
(* Every lock is a spin::Mutex.  The locks a call takes and releases are   *)
(* a sequence of events <<"lock", l>> and <<"unlock", l>>, in the order    *)
(* the calling thread performs them on the file system f; a guard that is  *)
(* a temporary is released at the end of its statement, a named guard at   *)
(* the end of its scope or at drop.                                        *)
(***************************************************************************)

FsLock == <<"fs", 0>>
ManagerLock == <<"manager", 0>>
EntryLock(block_id) == <<"entry", block_id>>
Acquire(l) == << <<"lock", l>> >>
Release(l) == << <<"unlock", l>> >>

RECURSIVE Flat(_)
\* The events of several steps, one after the other.
Flat(seqs) == IF seqs = <<>> THEN <<>> ELSE Head(seqs) \o Flat(Tail(seqs))

\* get_block_cache: BLOCK_CACHE_MANAGER.lock() for the length of the call.
GetBlockCacheLocks == Acquire(ManagerLock) \o Release(ManagerLock)

\* get_block_cache(block_id, ..).lock().read / modify(offset, f), f taking
\* the locks of inner.
WithEntry(block_id, inner) ==
    GetBlockCacheLocks \o Acquire(EntryLock(block_id)) \o inner
        \o Release(EntryLock(block_id))

\* The blocks the events so far went through: the entries of the cache.
CachedBlocks(events) ==
    {events[i][2][2] : i \in {j \in DOMAIN events : events[j][2][1] = "entry"}}

\* block_cache_sync_all: the manager lock, and under it every entry's.
SyncAllLocks(events) ==
    Acquire(ManagerLock)
        \o Flat([i \in 1 .. Cardinality(CachedBlocks(events)) |->
                    Let(CHOOSE b \in CachedBlocks(events) :
                            Cardinality({c \in CachedBlocks(events) : c < b}) = i - 1,
                        LAMBDA b : Acquire(EntryLock(b)) \o Release(EntryLock(b)))])
        \o Release(ManagerLock)

\* DiskInode::read_at / write_at: one cache entry per block of the range.
DiskRangeLocks(di, offset, len) ==
    LET end == IF offset + len < di.size THEN offset + len ELSE di.size IN
    IF offset >= end THEN <<>>
    ELSE Flat([i \in 1 .. ((end - 1) \div BLOCK_SZ - offset \div BLOCK_SZ + 1) |->
                  WithEntry(di.direct[offset \div BLOCK_SZ + i], <<>>)])

\* Bitmap::alloc and dealloc on a bitmap whose blocks start at start_block_id:
\* the entry of the block that holds the bit.
BitmapLocks(start_block_id, bit) ==
    WithEntry(start_block_id + Decomposition(bit)[1], <<>>)

\* EasyFileSystem::alloc_inode and dealloc_data
AllocInodeLocks(f) ==
    BitmapLocks(1, CHOOSE b \in BitmapAlloc(f.ib).pos : TRUE)
DeallocDataLocks(block_id) ==
    WithEntry(block_id, <<>>)
        \o BitmapLocks(InodeAreaStart + InodeAreaBlocks, block_id - DataAreaStart)

\* Inode::find_inode_id: the entries are read up to the first match.
FindInodeIdLocks(mem, name, disk_inode) ==
    Let({i \in 0 .. (disk_inode.size \div DIRENT_SZ - 1) :
            DirEntryName(DirentAt(mem, disk_inode, i)) = name},
        LAMBDA hits :
        Flat([i \in 1 .. (IF hits = {} THEN disk_inode.size \div DIRENT_SZ
                          ELSE 1 + CHOOSE h \in hits : \A g \in hits : h <= g) |->
                 DiskRangeLocks(disk_inode, DIRENT_SZ * (i - 1), DIRENT_SZ)]))

\* Inode::find
FindLocks(f, name) ==
    Acquire(FsLock)
        \o WithEntry(ROOT_INODE[1],
                     FindInodeIdLocks(f.mem, name, DiskInodeAt(f, ROOT_INODE)))
        \o Release(FsLock)

\* Inode::increase_size: one alloc_data per block needed; a is the file
\* system once the call is done.
IncreaseSizeLocks(f, a, pos, new_size) ==
    IF new_size < DiskInodeAt(f, pos).size THEN <<>>
    ELSE Flat([i \in 1 .. blocks_num_needed(DiskInodeAt(f, pos), new_size) |->
                  BitmapLocks(InodeAreaStart + InodeAreaBlocks,
                              DiskInodeAt(a, pos).direct[
                                  DataBlocks(DiskInodeAt(f, pos).size) + i]
                                  - DataAreaStart)])

\* Inode::create; a is the file system once the call is done.
CreateLocks(f, a, name) ==
    Let(Acquire(FsLock)
            \o WithEntry(ROOT_INODE[1],
                         FindInodeIdLocks(f.mem, name, DiskInodeAt(f, ROOT_INODE))),
        LAMBDA looked :
        IF FindInodeId(f.mem, name, DiskInodeAt(f, ROOT_INODE)) # {}
        THEN looked \o Release(FsLock)
        ELSE Let(looked
                 \o AllocInodeLocks(f)
                 \o WithEntry(get_disk_inode_pos(
                                  CHOOSE b \in BitmapAlloc(f.ib).pos : TRUE)[1], <<>>)
                 \o WithEntry(ROOT_INODE[1],
                        IncreaseSizeLocks(f, a, ROOT_INODE,
                                          DiskInodeAt(f, ROOT_INODE).size + 32)
                        \o DiskRangeLocks(DiskInodeAt(a, ROOT_INODE),
                                          DiskInodeAt(f, ROOT_INODE).size, DIRENT_SZ)),
                 LAMBDA done : done \o SyncAllLocks(done) \o Release(FsLock)))

\* Inode::ls
LsLocks(f) ==
    Acquire(FsLock)
        \o WithEntry(ROOT_INODE[1],
               DiskRangeLocks(DiskInodeAt(f, ROOT_INODE), 0,
                              DiskInodeAt(f, ROOT_INODE).size))
        \o Release(FsLock)

\* Inode::read_at
ReadAtLocks(f, pos, offset, len) ==
    Acquire(FsLock)
        \o WithEntry(pos[1], DiskRangeLocks(DiskInodeAt(f, pos), offset, len))
        \o Release(FsLock)

\* Inode::write_at; a is the file system once the call is done.
WriteAtLocks(f, a, pos, offset, len) ==
    Let(Acquire(FsLock)
            \o WithEntry(pos[1],
                   IncreaseSizeLocks(f, a, pos, offset + len)
                   \o DiskRangeLocks(DiskInodeAt(a, pos), offset, len)),
        LAMBDA done : done \o SyncAllLocks(done) \o Release(FsLock))

\* Inode::clear
ClearLocks(f, pos) ==
    Let(Acquire(FsLock)
            \o WithEntry(pos[1],
                   Flat([i \in DOMAIN DiskInodeAt(f, pos).direct |->
                            DeallocDataLocks(DiskInodeAt(f, pos).direct[i])])),
        LAMBDA done : done \o SyncAllLocks(done) \o Release(FsLock))

\* Inode::unlink: find, clear on what it found, then the root's entries
\* are read up to the one with the name, which is overwritten.
UnlinkLocks(f, name) ==
    FindLocks(f, name)
        \o ClearLocks(f, CHOOSE pos \in Find(f, name) : TRUE)
        \o Let(Clear(f, CHOOSE pos \in Find(f, name) : TRUE), LAMBDA a :
               WithEntry(ROOT_INODE[1],
                   FindInodeIdLocks(a.mem, name, DiskInodeAt(a, ROOT_INODE))
                   \o IF FindInodeId(a.mem, name, DiskInodeAt(a, ROOT_INODE)) = {}
                      THEN <<>>
                      ELSE Let(CHOOSE i \in 0 .. (DiskInodeAt(a, ROOT_INODE).size
                                                      \div DIRENT_SZ - 1) :
                                   /\ DirEntryName(DirentAt(a.mem,
                                          DiskInodeAt(a, ROOT_INODE), i)) = name
                                   /\ \A j \in 0 .. (i - 1) :
                                          DirEntryName(DirentAt(a.mem,
                                              DiskInodeAt(a, ROOT_INODE), j)) # name,
                               LAMBDA i :
                               DiskRangeLocks(DiskInodeAt(a, ROOT_INODE),
                                              DIRENT_SZ * i, DIRENT_SZ))))

\* A linkat that keeps the guard of the target's block to the end of the
\* call.
LinkatLocksNoDrop(self, target) ==
    GetBlockCacheLocks \o Acquire(EntryLock(target[1]))
        \o WithEntry(self[1], <<>>)
        \o Release(EntryLock(target[1]))

\* Inode::linkat: the guard of the target's block is dropped before
\* get_block_cache is called for self's block.
LinkatLocks(self, target) ==
    GetBlockCacheLocks \o Acquire(EntryLock(target[1]))
        \o Release(EntryLock(target[1]))
        \o WithEntry(self[1], <<>>)

\* Inode::size and Inode::is_file
SizeLocks(pos) == WithEntry(pos[1], <<>>)

\* sys_linkat: find(old), create(new), linkat.
SysLinkatLocks(f, a, old_name, new_name) ==
    IF old_name = new_name THEN <<>>
    ELSE FindLocks(f, old_name)
            \o CreateLocks(f, a, new_name)
            \o LinkatLocks(CHOOSE pos \in Find(a, new_name) : TRUE,
                           CHOOSE pos \in Find(f, old_name) : TRUE)

\* sys_unlinkat: find, unlink, read_at on the inode found.
SysUnlinkatLocks(f, a, name) ==
    FindLocks(f, name)
        \o IF Find(f, name) = {} THEN <<>>
           ELSE UnlinkLocks(f, name)
                \o ReadAtLocks(a, CHOOSE pos \in Find(f, name) : TRUE, 0, BLOCK_SZ)

\* The locks held when event i of a call is performed.
Held(events, i) ==
    {events[j][2] : j \in {k \in 1 .. (i - 1) :
        /\ events[k][1] = "lock"
        /\ \A m \in (k + 1) .. (i - 1) : events[m] # <<"unlock", events[k][2]>>}}

\* The events of the call that last records, made on the file system f and
\* leaving it as a.
LocksOf(call, f, a) ==
    IF call.op = "create" THEN CreateLocks(f, a, call.name)
    ELSE IF call.op = "write_at"
         THEN WriteAtLocks(f, a, call.inode, call.offset, Len(call.buf))
    ELSE IF call.op = "read_at"
         THEN ReadAtLocks(f, call.inode, call.offset, call.len)
    ELSE IF call.op = "ls" THEN LsLocks(f)
    ELSE IF call.op = "linkat" THEN SysLinkatLocks(f, a, call.old, call.new)
    ELSE IF call.op = "unlinkat" THEN SysUnlinkatLocks(f, a, call.name)
    ELSE <<>>

\* Calls on two names, with a write to the first file that crosses into a
\* second block.
LockNames == {<<1>>, <<2>>}

NextFsLock ==
    \/ \E name \in LockNames : CreateOp(name)
    \/ WriteAtOp(1, BLOCK_SZ - 1, <<1, 1>>)
    \/ ReadAtOp(1, BLOCK_SZ - 1, 2)
    \/ \E old_name \in LockNames, new_name \in LockNames :
           SysLinkatOp(old_name, new_name)
    \/ \E name \in LockNames : SysUnlinkatOp(name)
    \/ LsOp

SpecFsLock == InitFs /\ [][NextFsLock]_vars

(***************************************************************************)
(* Processes and their children (os/src/task/task.rs, sys_waitpid)         *)
(*                                                                         *)
(* procs maps each pid that is in use to the fields of its control block,  *)
(* children being the Vec of the TaskControlBlockInner as a sequence of    *)
(* pids.                                                                   *)
(***************************************************************************)

\* Most processes at one time, the exit codes and the pids callers pass.
MaxProcs == 3
ExitCodes == {0, -1}
INITPROC == 0
WaitArgs == -1 .. MaxProcs

\* ELF files a process spawns.
Elfs == {"ls"}

\* PidAllocator::alloc and dealloc: a recycled pid first, else the next one.
PidAlloc(a) ==
    IF a.recycled # <<>>
    THEN [pid |-> a.recycled[Len(a.recycled)],
          a |-> [a EXCEPT !.recycled = SubSeq(@, 1, Len(@) - 1)]]
    ELSE [pid |-> a.current, a |-> [a EXCEPT !.current = @ + 1]]
PidDealloc(a, pid) == [a EXCEPT !.recycled = Append(@, pid)]

\* KernelStack::get_top of the stack of pid, as a page number: the stacks
\* lie below the trampoline, each with a guard page.
KERNEL_STACK_PAGES == 2
KernelStackTop(pid) ==
    Floor(VirtAddrFrom(TRAMPOLINE)) - pid * (KERNEL_STACK_PAGES + 1) - 1

\* A fork whose child keeps the kernel_sp of the trap context it copied.
ForkKeepsKernelSp(ps, parent, child) ==
    MapInsert([ps EXCEPT ![parent].children = Append(@, child)],
              child,
              [status |-> "Ready", exit_code |-> 0, children |-> <<>>,
               parent |-> {parent}, memory_set |-> ps[parent].memory_set,
               kernel_sp |-> ps[parent].kernel_sp])

\* TaskControlBlock::fork: a Ready child with a copy of the parent's memory
\* set, no children and the pid that pid_alloc handed out, pushed on the
\* parent's children; its trap context gets the top of its kernel stack.
Fork(ps, parent, child) ==
    MapInsert([ps EXCEPT ![parent].children = Append(@, child)],
              child,
              [status |-> "Ready", exit_code |-> 0, children |-> <<>>,
               parent |-> {parent}, memory_set |-> ps[parent].memory_set,
               kernel_sp |-> KernelStackTop(child)])

\* TaskControlBlock::spawn: the same with a memory set built from the ELF
\* file and the trap context of app_init_context.
Spawn(ps, parent, child, elf) ==
    MapInsert([ps EXCEPT ![parent].children = Append(@, child)],
              child,
              [status |-> "Ready", exit_code |-> 0, children |-> <<>>,
               parent |-> {parent}, memory_set |-> elf,
               kernel_sp |-> KernelStackTop(child)])

\* exit_current_and_run_next(exit_code): the process becomes a Zombie and
\* its children become children of the initial process.
ExitCurrent(ps, pid, exit_code) ==
    [q \in DOMAIN ps |->
        IF q = pid
        THEN [ps[q] EXCEPT !.status = "Zombie", !.exit_code = exit_code,
                           !.children = <<>>]
        ELSE IF q = INITPROC
        THEN [ps[q] EXCEPT !.children = @ \o ps[pid].children]
        ELSE IF ps[q].parent = {pid}
        THEN [ps[q] EXCEPT !.parent = {INITPROC}]
        ELSE ps[q]]

\* The index in children of the first child that matches pid and, when
\* zombie is asked for, is a Zombie; {} when there is none.
FirstChild(ps, caller, pid, zombie) ==
    Let({i \in DOMAIN ps[caller].children :
            /\ pid = -1 \/ pid = ps[caller].children[i]
            /\ zombie => ps[ps[caller].children[i]].status = "Zombie"},
        LAMBDA hits :
        IF hits = {} THEN {} ELSE {CHOOSE i \in hits : \A j \in hits : i <= j})

\* A waitpid that takes the first matching child, Zombie or not.
WaitpidAnyChild(ps, caller, pid) ==
    IF FirstChild(ps, caller, pid, FALSE) = {}
    THEN [procs |-> ps, ret |-> -1, exit_code |-> {}]
    ELSE Let(CHOOSE i \in FirstChild(ps, caller, pid, FALSE) : TRUE, LAMBDA idx :
         Let(ps[caller].children[idx], LAMBDA child :
         [procs |-> [q \in DOMAIN ps \ {child} |->
                        IF q = caller
                        THEN [ps[q] EXCEPT !.children =
                                 SubSeq(@, 1, idx - 1) \o SubSeq(@, idx + 1, Len(@))]
                        ELSE ps[q]],
          ret |-> child,
          exit_code |-> {ps[child].exit_code}]))

\* sys_waitpid(pid, exit_code_ptr) of caller: [procs, ret, exit_code], with
\* exit_code the value stored through exit_code_ptr, {} when none is.
sys_waitpid(ps, caller, pid) ==
    IF FirstChild(ps, caller, pid, FALSE) = {}
    THEN [procs |-> ps, ret |-> -1, exit_code |-> {}]
    ELSE IF FirstChild(ps, caller, pid, TRUE) = {}
    THEN [procs |-> ps, ret |-> -2, exit_code |-> {}]
    ELSE Let(CHOOSE i \in FirstChild(ps, caller, pid, TRUE) : TRUE, LAMBDA idx :
         Let(ps[caller].children[idx], LAMBDA child :
         [procs |-> [q \in DOMAIN ps \ {child} |->
                        IF q = caller
                        THEN [ps[q] EXCEPT !.children =
                                 SubSeq(@, 1, idx - 1) \o SubSeq(@, idx + 1, Len(@))]
                        ELSE ps[q]],
          ret |-> child,
          exit_code |-> {ps[child].exit_code}]))

\* A process that can make a system call.
Alive(pid) == pid \in DOMAIN procs /\ procs[pid].status # "Zombie"

SysForkOp(pid) ==
    /\ ~panicked /\ OnlyProc
    /\ Alive(pid)
    /\ Cardinality(DOMAIN procs) < MaxProcs
    /\ \E r \in {PidAlloc(pid_allocator)} :
        /\ procs' = Fork(procs, pid, r.pid)
        /\ pid_allocator' = r.a
        /\ last' = [op |-> "fork", caller |-> pid, ret |-> r.pid]
    /\ UNCHANGED panicked

SysSpawnOp(pid, elf) ==
    /\ ~panicked /\ OnlyProc
    /\ Alive(pid)
    /\ Cardinality(DOMAIN procs) < MaxProcs
    /\ \E r \in {PidAlloc(pid_allocator)} :
        /\ procs' = Spawn(procs, pid, r.pid, elf)
        /\ pid_allocator' = r.a
        /\ last' = [op |-> "spawn", caller |-> pid, ret |-> r.pid]
    /\ UNCHANGED panicked

SysExitOp(pid, exit_code) ==
    /\ ~panicked /\ OnlyProc
    /\ Alive(pid) /\ pid # INITPROC
    /\ procs' = ExitCurrent(procs, pid, exit_code)
    /\ UNCHANGED pid_allocator
    /\ last' = [op |-> "exit", caller |-> pid, exit_code |-> exit_code]
    /\ UNCHANGED panicked

SysWaitpidOp(caller, pid) ==
    /\ ~panicked /\ OnlyProc
    /\ Alive(caller)
    /\ \E r \in {sys_waitpid(procs, caller, pid)} :
        /\ procs' = r.procs
        /\ pid_allocator' = IF r.ret >= 0 THEN PidDealloc(pid_allocator, r.ret)
                            ELSE pid_allocator
        /\ last' = [op |-> "waitpid", caller |-> caller, pid |-> pid,
                    ret |-> r.ret, exit_code |-> r.exit_code]
    /\ UNCHANGED panicked

\* The initial process alone.
InitProc ==
    /\ \E r \in {PidAlloc([current |-> 0, recycled |-> <<>>])} :
        /\ pid_allocator = r.a
        /\ procs = MapInsert(<<>>, r.pid,
                             [status |-> "Ready", exit_code |-> 0, children |-> <<>>,
                              parent |-> {}, memory_set |-> "initproc",
                              kernel_sp |-> KernelStackTop(r.pid)])
    /\ panicked = FALSE
    /\ last = [op |-> "init"]
    /\ IdleCache
    /\ IdleBitmap
    /\ IdleFrame
    /\ IdleMM
    /\ IdleTime
    /\ IdleTask
    /\ IdleFs
    /\ IdleFd
    /\ IdleHanoi
    /\ IdleFTest

NextProc ==
    \/ \E pid \in 0 .. (MaxProcs - 1) : SysForkOp(pid)
    \/ \E pid \in 0 .. (MaxProcs - 1), elf \in Elfs : SysSpawnOp(pid, elf)
    \/ \E pid \in 0 .. (MaxProcs - 1), exit_code \in ExitCodes : SysExitOp(pid, exit_code)
    \/ \E caller \in 0 .. (MaxProcs - 1), pid \in WaitArgs : SysWaitpidOp(caller, pid)

SpecProc == InitProc /\ [][NextProc]_vars

(***************************************************************************)
(* The user program 05hanoi (user/src/bin/05hanoi.rs)                      *)
(*                                                                         *)
(* The recursion runs one call per step: hstack holds the calls that are   *)
(* still to run, in the order the program runs them.                       *)
(***************************************************************************)

\* The deepest tower the runs start from, the level main asks for and the
\* count it compares with.
MaxLevel == 6
MainLevel == 5
MainMoves == 31

\* CurrentState!(level)
CurrentState(level) ==
    IF level < 1 THEN "LessThanOne"
    ELSE IF level = 1 THEN "One"
    ELSE "MoreThanOne"

HanoiCall(level, from, by, to) == [level |-> level, from |-> from, by |-> by, to |-> to]

\* A MoreThanOne arm that leaves out the move between the two recursive calls.
HanoiNoMiddle(level, from, by, to) ==
    IF CurrentState(level) = "MoreThanOne"
    THEN <<HanoiCall(level - 1, from, to, by), HanoiCall(level - 1, by, from, to)>>
    ELSE <<>>

\* hanoi(level, from, by, to): the calls the body makes, in order.
hanoi(level, from, by, to) ==
    IF CurrentState(level) = "MoreThanOne"
    THEN <<HanoiCall(level - 1, from, to, by),
           HanoiCall(1, from, by, to),
           HanoiCall(level - 1, by, from, to)>>
    ELSE <<>>

\* The next call of hanoi runs its match.  CNT is a u32; the runs here stay
\* below 2^MaxLevel, where CNT += 1 cannot wrap.
HanoiStep ==
    /\ ~panicked /\ OnlyHanoi
    /\ hstack # <<>>
    /\ \E c \in {Head(hstack)} :
        /\ panicked' = (CurrentState(c.level) = "LessThanOne")
        /\ CNT' = IF CurrentState(c.level) = "One" THEN CNT + 1 ELSE CNT
        /\ hstack' = IF CurrentState(c.level) = "LessThanOne"
                     THEN hstack
                     ELSE hanoi(c.level, c.from, c.by, c.to) \o Tail(hstack)
        /\ last' = [op |-> "hanoi", state |-> CurrentState(c.level),
                    from |-> c.from, to |-> c.to]
    /\ UNCHANGED <<hlevel, hexit>>

\* main returns (CNT != 31) as i32 once hanoi has returned.
MainReturn ==
    /\ ~panicked /\ OnlyHanoi
    /\ hstack = <<>> /\ hexit = {}
    /\ hexit' = {IF CNT # MainMoves THEN 1 ELSE 0}
    /\ last' = [op |-> "main"]
    /\ UNCHANGED <<CNT, hstack, hlevel, panicked>>

\* main has called hanoi(level, 'a', 'b', 'c').
InitHanoi ==
    /\ hlevel \in 0 .. MaxLevel
    /\ hstack = <<HanoiCall(hlevel, "a", "b", "c")>>
    /\ CNT = 0
    /\ hexit = {}
    /\ panicked = FALSE
    /\ last = [op |-> "init"]
    /\ IdleCache
    /\ IdleBitmap
    /\ IdleFrame
    /\ IdleMM
    /\ IdleTime
    /\ IdleTask
    /\ IdleFs
    /\ IdleFd
    /\ IdleProc
    /\ IdleFTest

NextHanoi == HanoiStep \/ MainReturn

\* The program keeps running until it returns or panics.
SpecHanoi == InitHanoi /\ [][NextHanoi]_vars /\ WF_vars(NextHanoi)

(***************************************************************************)
(* Borrows of TASK_MANAGER.inner (os/src/sync/up.rs, os/src/task/mod.rs)   *)
(*                                                                         *)
(* A scheduler call is the sequence of its exclusive_access calls          *)
(* ("lock"), the drops of the RefMut they return ("unlock") and its        *)
(* __switch ("switch"), in program order.                                  *)
(***************************************************************************)

TaskManagerInner == <<"TASK_MANAGER.inner">>
Switch == << <<"switch", TaskManagerInner>> >>

\* A call that takes exclusive_access and drops the RefMut when it returns:
\* get_current_taskid, mark_current_suspended, mark_current_exited,
\* find_next_task, get_taskinfo.
BorrowForCall == Acquire(TaskManagerInner) \o Release(TaskManagerInner)

\* TaskManager::run_first_task behind the public run_first_task.
RunFirstTaskBorrows ==
    Flat(<<Acquire(TaskManagerInner), Release(TaskManagerInner),
           Acquire(TaskManagerInner), Release(TaskManagerInner), Switch>>)

\* A run_next_task whose RefMut lives until the function returns.
RunNextTaskBorrowsNoDrop(ts, current) ==
    IF find_next_task(ts, current) # {}
    THEN Flat(<<BorrowForCall, Acquire(TaskManagerInner), Switch,
                Release(TaskManagerInner)>>)
    ELSE Flat(<<BorrowForCall,
                Flat([id \in 1 .. Len(ts) |-> BorrowForCall])>>)

\* TaskManager::run_next_task: find_next_task, then either the borrow, the
\* drop and the switch, or statistic's get_taskinfo of every task.
RunNextTaskBorrows(ts, current) ==
    IF find_next_task(ts, current) # {}
    THEN Flat(<<BorrowForCall, Acquire(TaskManagerInner),
                Release(TaskManagerInner), Switch>>)
    ELSE Flat(<<BorrowForCall,
                Flat([id \in 1 .. Len(ts) |-> BorrowForCall])>>)

\* The events of the call that call records, made with the tasks ts and
\* the current task current.
BorrowsOf(call, ts, current) ==
    IF call.op = "init" THEN RunFirstTaskBorrows
    ELSE IF call.op = "yield"
         THEN Flat(<<BorrowForCall, BorrowForCall,
                     RunNextTaskBorrows(mark_current_suspended(ts, current), current)>>)
    ELSE IF call.op = "tick"
         THEN Flat(<<BorrowForCall,
                     RunNextTaskBorrows(mark_current_suspended(ts, current), current)>>)
    ELSE IF call.op = "exit"
         THEN Flat(<<BorrowForCall, BorrowForCall,
                     RunNextTaskBorrows(mark_current_exited(ts, current), current)>>)
    ELSE IF call.op = "taskinfo" /\ call.ret = {0} THEN BorrowForCall
    ELSE <<>>

\* C21: ls() returns exactly the names of the files that exist, and never an
\* empty name: slots zeroed by unlink are skipped.
C21_LsListsExisting ==
    last.op = "ls" =>
        /\ ~panicked
        /\ {last.names[i] : i \in DOMAIN last.names} = exist
        /\ \A i \in DOMAIN last.names : last.names[i] # <<>>

\* ls after a file was created and unlinked.
C21_Witness ==
    /\ last.op = "ls" /\ ~panicked
    /\ \E i \in DOMAIN last.names : last.names[i] = <<>>
    /\ <<>> \notin exist

\* ls while no slot is zeroed lists the files that exist.
C21_WitnessNoneUnlinked ==
    /\ last.op = "ls" /\ Len(last.names) = 2
    /\ {last.names[i] : i \in DOMAIN last.names} = exist
\* C22: sys_linkat(old, new) with old missing, new present or old = new
\* returns -1, leaves the file system as it was and does not panic.
C22_LinkatRecoverable ==
    [][(/\ last'.op = "linkat"
        /\ \/ last'.old = last'.new
           \/ Find(FNow, last'.old) = {}
           \/ Find(FNow, last'.new) # {})
       => /\ last'.ret = {-1}
          /\ ~panicked'
          /\ <<inode_bitmap, data_bitmap, disk_inodes, blocks>>'
                 = <<inode_bitmap, data_bitmap, disk_inodes, blocks>>]_vars

\* sys_linkat with old missing has panicked.
C22_Witness ==
    /\ last.op = "linkat" /\ last.old # last.new
    /\ last.ret = {} /\ panicked
    /\ Find(FNow, last.old) = {}

\* sys_linkat with old = new has returned -1.
C22_WitnessSameName ==
    last.op = "linkat" /\ last.old = last.new /\ last.ret = {-1} /\ ~panicked

\* sys_linkat with new present has panicked.
C22_WitnessCollision ==
    /\ last.op = "linkat" /\ last.old # last.new /\ panicked
    /\ Find(FNow, last.old) # {} /\ Find(FNow, last.new) # {}
\* C23: sys_fstat(fd, st) with st mapped never panics, whatever fd is: it
\* returns -1, or 0 with the Stat filled.
C23_FstatRecoverable ==
    (last.op = "fstat" /\ last.st_mapped) =>
        /\ ~panicked
        /\ last.ret = {-1} \/ (last.ret = {0} /\ last.st # {})

\* sys_fstat of an fd outside the table has panicked.
C23_Witness ==
    /\ last.op = "fstat" /\ last.st_mapped /\ last.slot = "outside"
    /\ panicked

\* sys_fstat of a negative fd has panicked.
C23_WitnessNegative ==
    last.op = "fstat" /\ last.st_mapped /\ last.fd < 0 /\ panicked

\* sys_fstat of fd 0 while it is Stdin has panicked.
C23_WitnessStdio ==
    last.op = "fstat" /\ last.st_mapped /\ last.slot = "Stdin" /\ panicked

\* sys_fstat of an open file whose name was unlinked has panicked.
C23_WitnessUnlinked ==
    /\ last.op = "fstat" /\ last.st_mapped /\ last.slot = "OSInode"
    /\ panicked
    /\ last.fd \in DOMAIN fd_name_map
    /\ Find(FNow, fd_name_map[last.fd]) = {}

\* sys_fstat of an empty slot has returned -1, and of an open file 0.
C23_WitnessEmpty ==
    last.op = "fstat" /\ last.slot = "empty" /\ last.ret = {-1} /\ ~panicked

C23_WitnessFile ==
    /\ last.op = "fstat" /\ last.slot = "OSInode" /\ last.ret = {0}
    /\ \E st \in last.st : st.mode = "FILE"
\* C24: sys_read, sys_write and sys_close of a bad fd (past the table or an
\* empty slot), and a read or write of a file without the capability,
\* return -1 and leave the fd table as it was; sys_close of an open fd empties
\* that slot and its fd_name_map entry and returns 0, so a second close of
\* the same fd returns -1.
C24_BadFd ==
    [][/\ (/\ last'.op \in {"read", "write", "close"}
           /\ \/ last'.fd >= Len(fd_table)
              \/ fd_table[last'.fd + 1] = {}
              \/ last'.op = "read"
                    /\ \A file \in fd_table[last'.fd + 1] : ~file.readable
              \/ last'.op = "write"
                    /\ \A file \in fd_table[last'.fd + 1] : ~file.writable)
          => /\ last'.ret = {-1}
             /\ fd_table' = fd_table
             /\ fd_name_map' = fd_name_map
       /\ (/\ last'.op = "close"
           /\ last'.fd < Len(fd_table)
           /\ fd_table[last'.fd + 1] # {})
          => /\ last'.ret = {0}
             /\ fd_table' = [fd_table EXCEPT ![last'.fd + 1] = {}]
             /\ DOMAIN fd_name_map' = DOMAIN fd_name_map \ {last'.fd}
             /\ \A fd \in DOMAIN fd_name_map' : fd_name_map'[fd] = fd_name_map[fd]
       /\ (/\ last.op = "close" /\ last.ret = {0}
           /\ last'.op = "close" /\ last'.fd = last.fd)
          => last'.ret = {-1}]_vars

\* A file opened by sys_open was closed, then closed again.
C24_Witness ==
    /\ last.op = "close" /\ last.fd = 3 /\ last.slot = "empty"
    /\ last.ret = {-1}
    /\ 3 \notin DOMAIN fd_name_map

\* An open file with a name has just been closed.
C24_WitnessClosed ==
    /\ last.op = "close" /\ last.slot = "OSInode" /\ last.ret = {0}
    /\ fd_table[last.fd + 1] = {} /\ last.fd \notin DOMAIN fd_name_map

\* A write to Stdin, and a read of a file opened write-only, returned -1.
C24_WitnessNotWritable ==
    last.op = "write" /\ last.slot = "Stdin" /\ last.ret = {-1}

C24_WitnessNotReadable ==
    /\ last.op = "read" /\ last.slot = "OSInode" /\ last.ret = {-1}
    /\ \A file \in fd_table[last.fd + 1] : ~file.readable

\* A write through an fd moved the file's offset.
C24_WitnessWritten ==
    /\ last.op = "write" /\ last.slot = "OSInode" /\ last.ret = {1}
    /\ \E file \in fd_table[last.fd + 1] : file.offset = 1
\* C25: no call of the inode layer locks a block-cache entry, or the file
\* system, that the calling thread already holds; linkat locks the
\* destination's block after it has released the target's.
C25_NoRelock ==
    /\ [][~panicked' =>
            \A events \in {LocksOf(last', FNow, FNow')} :
                \A i \in DOMAIN events :
                    events[i][1] = "lock" => events[i][2] \notin Held(events, i)]_vars
    /\ [](\A id \in 0 .. MaxFiles :
            \A events \in {SizeLocks(get_disk_inode_pos(id))} :
                \A i \in DOMAIN events :
                    events[i][1] = "lock" => events[i][2] \notin Held(events, i))

\* A link between two inodes of one block has been made.
C25_Witness ==
    /\ last.op = "linkat" /\ last.ret = {0} /\ ~panicked
    /\ \E self \in Find(FNow, last.new), target \in Find(FNow, last.old) :
          /\ self # target /\ self[1] = target[1]
          /\ <<"lock", EntryLock(self[1])>>
                 \in {LinkatLocks(self, target)[i] :
                         i \in DOMAIN LinkatLocks(self, target)}
\* C26: the block-cache manager's lock comes before every entry's: no call
\* of the inode layer takes the manager's lock (get_block_cache,
\* block_cache_sync_all) while it holds the lock of an entry.
C26_ManagerBeforeEntry ==
    [][~panicked' =>
          \A events \in {LocksOf(last', FNow, FNow')} :
              \A i \in DOMAIN events :
                  events[i] = <<"lock", ManagerLock>>
                      => \A l \in Held(events, i) : l[1] # "entry"]_vars

\* A create has appended an entry: with the root inode's block locked it
\* went to the data bitmap and to the entry's data block.
C26_Witness ==
    /\ last.op = "create" /\ last.ret # {} /\ ~panicked
    /\ \E events \in {WithEntry(ROOT_INODE[1],
                          DiskRangeLocks(DiskInodeAt(FNow, ROOT_INODE),
                              DiskInodeAt(FNow, ROOT_INODE).size - DIRENT_SZ,
                              DIRENT_SZ))} :
          \E i \in DOMAIN events :
              /\ events[i] = <<"lock", ManagerLock>>
              /\ EntryLock(ROOT_INODE[1]) \in Held(events, i)
\* C27: the scheduler goes round the task list.  At a timer tick, a yield
\* or an exit no Ready task between the old current task and the new one
\* is passed over, and a task that gives way to itself does so only when no
\* other task is Ready; with two tasks left that are preempted at every
\* tick, the running task alternates, so each runs again within two ticks.
C27_RoundRobin ==
    [][/\ (last'.op \in {"tick", "yield", "exit"} /\ current_task' # current_task)
          => \A d \in 1 .. Len(tasks) :
                d < (current_task' - current_task + Len(tasks)) % Len(tasks)
                    => tasks[((current_task + d) % Len(tasks)) + 1] # "Ready"
       /\ (last'.op \in {"tick", "yield", "exit"} /\ current_task' = current_task)
          => \A i \in DOMAIN tasks : tasks[i] # "Ready"
       /\ (/\ last'.op = "tick"
           /\ Cardinality({i \in DOMAIN tasks : tasks[i] # "Exited"}) = 2)
          => /\ current_task' # current_task
             /\ tasks'[current_task' + 1] = "Running"
             /\ tasks'[current_task + 1] = "Ready"
       /\ (/\ last.op = "tick" /\ last'.op = "tick"
           /\ Cardinality({i \in DOMAIN tasks : tasks[i] # "Exited"}) = 2)
          => current_task' = last.prev]_vars

\* Two ticks in a row with two tasks left of three: the task preempted
\* first runs again.
C27_Witness ==
    /\ last.op = "tick" /\ Len(tasks) = 3
    /\ Cardinality({i \in DOMAIN tasks : tasks[i] # "Exited"}) = 2
    /\ last.prev # current_task
    /\ tasks[current_task + 1] = "Running"
    /\ tasks[last.prev + 1] = "Ready"

\* A tick with three tasks moved from the last task to the first.
C27_WitnessWrap ==
    last.op = "tick" /\ Len(tasks) = 3 /\ last.prev = 2 /\ current_task = 0
\* C28: waitpid(pid) returns at once: -1 when no child of the caller matches
\* pid; the pid of a matching Zombie child, whose exit code is stored and
\* which alone leaves the caller's children, when there is one; -2 when
\* children match and none is a Zombie.  A child that is not a Zombie is
\* never removed.
C28_Waitpid ==
    [][last'.op = "waitpid" =>
        \A matching \in {{i \in DOMAIN procs[last'.caller].children :
                            \/ last'.pid = -1
                            \/ last'.pid = procs[last'.caller].children[i]}} :
        \A zombies \in {{i \in matching :
                           procs[procs[last'.caller].children[i]].status = "Zombie"}} :
        /\ matching = {} => (last'.ret = -1 /\ procs' = procs)
        /\ (matching # {} /\ zombies = {}) => (last'.ret = -2 /\ procs' = procs)
        /\ zombies # {} =>
              \E i \in zombies :
                 /\ last'.ret = procs[last'.caller].children[i]
                 /\ last'.exit_code = {procs[last'.ret].exit_code}
                 /\ last'.ret \notin DOMAIN procs'
                 /\ Len(procs'[last'.caller].children)
                        = Len(procs[last'.caller].children) - 1
                 /\ \A j \in DOMAIN procs'[last'.caller].children :
                        procs'[last'.caller].children[j]
                            = procs[last'.caller].children[IF j < i THEN j ELSE j + 1]
                 /\ \A q \in DOMAIN procs' \ {last'.caller} : procs'[q] = procs[q]
        /\ \A q \in DOMAIN procs \ DOMAIN procs' : procs[q].status = "Zombie"]_vars

\* A waitpid(-1) has collected a Zombie and left a live child in place.
C28_Witness ==
    /\ last.op = "waitpid" /\ last.pid = -1 /\ last.ret >= 0
    /\ last.exit_code = {-1}
    /\ Len(procs[last.caller].children) = 1
    /\ \A i \in DOMAIN procs[last.caller].children :
          procs[procs[last.caller].children[i]].status = "Ready"

\* A waitpid for a live child returned -2, and for no child -1.
C28_WitnessWouldBlock ==
    /\ last.op = "waitpid" /\ last.ret = -2 /\ last.pid >= 0
    /\ \E i \in DOMAIN procs[last.caller].children :
          procs[last.caller].children[i] = last.pid

C28_WitnessNoChild ==
    /\ last.op = "waitpid" /\ last.ret = -1
    /\ procs[last.caller].children # <<>>
\* C29: hanoi(n, ..) for n >= 1 returns, having added one to the move
\* counter exactly 2^n - 1 times; for level 5 that is 31 moves and main
\* returns 0.
C29_HanoiMoves ==
    /\ [](CNT <= 2 ^ hlevel - 1)
    /\ [](hexit # {} => CNT = 2 ^ hlevel - 1)
    /\ []((hexit # {} /\ hlevel = MainLevel) => (CNT = 31 /\ hexit = {0}))
    /\ (hlevel >= 1) ~> (hexit # {} /\ hstack = <<>> /\ ~panicked)

\* The level 5 run has returned.
C29_Witness == hlevel = MainLevel /\ hexit = {0} /\ CNT = 31 /\ last.op = "main"

\* A deeper run has returned too.
C29_WitnessDeeper == hlevel > MainLevel /\ hexit # {} /\ CNT > 31
\* C30: frame_alloc returns the page deallocated last whenever the recycled
\* list is not empty, otherwise the page at the bump pointer, which then moves
\* up by one, and None only when the recycled list is empty and current = end;
\* and k frames allocated, all dropped and k frames allocated again are the
\* same k pages, with the bump pointer where it was.
C30_StackDiscipline ==
    /\ [][last'.op = "frame_alloc" =>
            /\ fa.recycled # <<>> =>
                  /\ last'.ppn = {fa.recycled[Len(fa.recycled)]}
                  /\ fa'.recycled = SubSeq(fa.recycled, 1, Len(fa.recycled) - 1)
                  /\ fa'.current = fa.current
            /\ (fa.recycled = <<>> /\ fa.current # fa.end) =>
                  /\ last'.ppn = {fa.current}
                  /\ fa'.current = fa.current + 1
                  /\ fa'.recycled = <<>>
            /\ last'.ppn = {} <=> (fa.recycled = <<>> /\ fa.current = fa.end)]_vars
    /\ [](ftest.phase = "again" =>
            /\ fa.current = ftest.current
            /\ {ftest.v[i] : i \in DOMAIN ftest.v} \subseteq ftest.first
            /\ Len(ftest.v) = ftest.k =>
                  {ftest.v[i] : i \in DOMAIN ftest.v} = ftest.first)

\* The second round of a test with more than one frame is complete, some of
\* its pages having come from the bump pointer in the first round.
C30_Witness ==
    /\ ftest.phase = "again" /\ ftest.k > 1 /\ Len(ftest.v) = ftest.k
    /\ last.op = "frame_alloc" /\ last.from = "recycled"
    /\ fa.current > EkernelPpn

\* frame_alloc has returned None.
C30_WitnessNone ==
    /\ last.op = "frame_alloc" /\ last.ppn = {}
    /\ fa.recycled = <<>> /\ fa.current = fa.end
\* The entries of a translate result that are valid mappings
ValidOnly(entries) == {e \in entries : PteIsValid(e)}

\* C31: map(vpn, ppn, flags) on a vpn whose leaf is valid panics and leaves
\* the mapping as it was; unmap(vpn) on a vpn that has no valid mapping
\* panics; after a map that returns, translate(vpn) gives an entry with that
\* ppn and flags | V, and it keeps giving it until unmap(vpn), after which it
\* gives no valid entry; neither operation changes what translate reports as
\* a valid mapping of another vpn.
C31_MapUnmap ==
    [][\A root \in {memory_set.page_table.root_ppn} :
       \A before \in {PtView(ptes, root)} :
       \A after \in {PtView(ptes', root)} :
         /\ memory_set'.page_table.root_ppn = root
         /\ last'.op = "pt_map" =>
               /\ ValidOnly(before[last'.vpn]) # {} =>
                     (panicked' /\ after[last'.vpn] = before[last'.vpn])
               /\ ~panicked' =>
                     /\ Cardinality(after[last'.vpn]) = 1
                     /\ \A e \in after[last'.vpn] :
                           /\ PtePpn(e) = last'.ppn
                           /\ PteFlags(e) = WithFlag(last'.flags, PTE_V)
         /\ last'.op = "pt_unmap" =>
               /\ ValidOnly(before[last'.vpn]) = {} => panicked'
               /\ ~panicked' => ValidOnly(after[last'.vpn]) = {}
         /\ last'.op \in {"pt_map", "pt_unmap"} =>
               \A v \in PtVpns \ {last'.vpn} :
                   ValidOnly(after[v]) = ValidOnly(before[v])]_vars

\* A page mapped by map has been unmapped while its neighbour in the same
\* leaf table stays mapped.
C31_Witness ==
    /\ last.op = "pt_unmap" /\ ~panicked /\ last.vpn = 1300
    /\ ValidOnly(Translate(ptes, memory_set.page_table.root_ppn, 1301)) # {}
    /\ Translate(ptes, memory_set.page_table.root_ppn, 1300) = {0}

\* map has panicked on a page that was mapped by an earlier map.
C31_WitnessMapped ==
    /\ last.op = "pt_map" /\ panicked /\ last.vpn = 1300
    /\ ValidOnly(Translate(ptes, memory_set.page_table.root_ppn, 1300)) # {}

\* unmap has panicked on a page that was unmapped before.
C31_WitnessUnmapped ==
    /\ last.op = "pt_unmap" /\ panicked
    /\ Translate(ptes, memory_set.page_table.root_ppn, last.vpn) = {0}
\* C32: when sys_munmap(start, len) returns 0, every page that overlaps
\* [start, start + len) is unmapped afterwards and the frame it was mapped to
\* is released, for one page and for several pages alike.
C32_MunmapWholeRange ==
    [][(last'.op = "munmap" /\ last'.ret = 0 /\ ~panicked') =>
          \A vpn \in OverlapPages(last'.start, last'.len) :
              /\ ~PteIsValid(MmuPte(ptes', memory_set'.page_table.root_ppn, vpn))
              /\ \A pte \in {MmuPte(ptes, memory_set.page_table.root_ppn, vpn)} :
                    PteIsValid(pte) => live'[PtePpn(pte)] = 0]_vars

\* munmap of two pages that one mmap mapped has returned 0 and the second
\* page is still mapped.
C32_Witness ==
    /\ last.op = "munmap" /\ last.ret = 0 /\ ~panicked
    /\ last.start = Va(1300, 0) /\ last.len = 2 * PAGE_SIZE
    /\ ~PteIsValid(MmuPte(ptes, memory_set.page_table.root_ppn, 1300))
    /\ PteIsValid(MmuPte(last.pre.ptes, last.pre.ms.page_table.root_ppn, 1301))
    /\ PteIsValid(MmuPte(ptes, memory_set.page_table.root_ppn, 1301))

\* munmap of one page has returned 0 with the page unmapped and its frame
\* released.
C32_WitnessOnePage ==
    /\ last.op = "munmap" /\ last.ret = 0 /\ ~panicked
    /\ last.start = Va(1300, 0) /\ last.len = 100
    /\ \E pte \in {MmuPte(last.pre.ptes, last.pre.ms.page_table.root_ppn, 1300)} :
          PteIsValid(pte) /\ live[PtePpn(pte)] = 0
    /\ ~PteIsValid(MmuPte(ptes, memory_set.page_table.root_ppn, 1300))
\* C33: a task that exit_current_and_run_next has marked Exited never has
\* another status afterwards, while a task that is suspended becomes Ready,
\* or Running again at once when it is the only candidate, and a Ready task
\* stays Ready until it is made Running.
C33_ExitedNeverRuns ==
    [][/\ \A i \in DOMAIN tasks : tasks[i] = "Exited" => tasks'[i] = "Exited"
       /\ last'.op = "exit" => tasks'[current_task + 1] = "Exited"
       /\ last'.op \in {"yield", "tick"} =>
             /\ tasks'[current_task + 1] \in {"Ready", "Running"}
             /\ tasks'[current_task + 1] = "Running" <=> current_task' = current_task
       /\ \A i \in DOMAIN tasks :
             tasks[i] = "Ready" => tasks'[i] \in {"Ready", "Running"}]_vars

\* After the exit of task 1 the scheduler has passed over it: a tick on
\* task 0 of three has made task 2 run.
C33_Witness ==
    /\ last.op = "tick" /\ Len(tasks) = 3 /\ last.prev = 0
    /\ tasks = <<"Ready", "Exited", "Running">>
    /\ current_task = 2

\* C34: when every task calls exit in the end, and running tasks are
\* preempted or yield, the machine reaches the shutdown of run_next_task;
\* it is shut down only with no task Ready or Running, and a lone task that
\* yields runs again itself.
C34_Termination ==
    /\ <>Shutdown
    /\ [](Shutdown => \A i \in DOMAIN tasks : tasks[i] = "Exited")
    /\ [][(/\ last'.op = "yield"
           /\ \A i \in DOMAIN tasks : i # current_task + 1 => tasks[i] = "Exited")
          => /\ ~last'.shutdown
             /\ current_task' = current_task
             /\ tasks' = tasks]_vars

\* Three tasks have exited and the machine is shut down.
C34_Witness ==
    /\ Shutdown /\ last.op = "exit" /\ Len(tasks) = 3
    /\ \A i \in DOMAIN tasks : tasks[i] = "Exited"

\* The last task left has yielded and runs again.
C34_WitnessLone ==
    /\ last.op = "yield" /\ ~last.shutdown /\ Len(tasks) = 3
    /\ tasks = <<"Exited", "Running", "Exited">>

C38_NoBorrowAcrossSwitch ==
    /\ \A i \in DOMAIN RunFirstTaskBorrows :
          RunFirstTaskBorrows[i][1] \in {"switch", "lock"}
              => Held(RunFirstTaskBorrows, i) = {}
    /\ [][\A events \in {BorrowsOf(last', tasks, current_task)} :
             /\ \A i \in DOMAIN events :
                   events[i][1] \in {"switch", "lock"} => Held(events, i) = {}
             /\ Held(events, Len(events) + 1) = {}]_vars

\* A yield has switched to another task, after its borrow was dropped.
C38_Witness ==
    /\ last.op = "yield" /\ ~last.shutdown /\ current_task # last.prev
    /\ \E events \in {RunNextTaskBorrows(
                         [tasks EXCEPT ![last.prev + 1] = "Ready",
                                       ![current_task + 1] = "Ready"],
                         last.prev)} :
          /\ events[Len(events)] = <<"switch", TaskManagerInner>>
          /\ events[Len(events) - 1] = <<"unlock", TaskManagerInner>>
\* C35: fork and spawn each make a child whose pid no process has, with
\* status Ready, no children and the caller as its parent, pushed exactly
\* once on the caller's children; the kernel_sp of the child's trap context
\* is the top of the child's own kernel stack; the caller's pid, status and
\* memory set, and every other process, stay as they were.
C35_ForkSpawn ==
    [][last'.op \in {"fork", "spawn"} =>
        \A caller \in {last'.caller} : \A child \in {last'.ret} :
           /\ child \notin DOMAIN procs
           /\ DOMAIN procs' = DOMAIN procs \cup {child}
           /\ procs'[child].status = "Ready"
           /\ procs'[child].children = <<>>
           /\ procs'[child].parent = {caller}
           /\ procs'[caller].children = Append(procs[caller].children, child)
           /\ \A q \in DOMAIN procs :
                 Cardinality({i \in DOMAIN procs'[q].children :
                                 procs'[q].children[i] = child})
                     = IF q = caller THEN 1 ELSE 0
           /\ procs'[child].kernel_sp = KernelStackTop(child)
           /\ \A q \in DOMAIN procs : procs'[child].kernel_sp # procs'[q].kernel_sp
           /\ procs'[caller] = [procs[caller] EXCEPT !.children = Append(@, child)]
           /\ \A q \in DOMAIN procs \ {caller} : procs'[q] = procs[q]
           /\ last'.op = "fork" => procs'[child].memory_set = procs[caller].memory_set]_vars

\* A fork by a process that is not the initial one has been given the pid
\* that a reaped child gave back.
C35_Witness ==
    /\ last.op = "fork" /\ last.caller # INITPROC
    /\ pid_allocator.recycled = <<>> /\ pid_allocator.current = MaxProcs
    /\ last.ret < MaxProcs - 1
    /\ procs[last.ret].parent = {last.caller}

\* A spawn has made a second child of the initial process.
C35_WitnessSpawn ==
    /\ last.op = "spawn" /\ last.caller = INITPROC
    /\ Len(procs[INITPROC].children) = 2
    /\ procs[last.ret].memory_set \in Elfs
\* C36: for an ELF file with one or more PT_LOAD segments in any order of
\* address, from_elf puts the user stack above every segment with at least
\* one unmapped guard page between the highest segment end and the stack
\* bottom, returns stack bottom + USER_STACK_SIZE, maps the stack R|W|U and
\* maps the trap-context page R|W without U right below TRAMPOLINE.
C36_FromElfLayout ==
    [][last'.op = "from_elf" =>
        /\ ~panicked'
        /\ \A root \in {memory_set'.page_table.root_ppn} :
           \A top \in {Floor(last'.user_sp)} :
           \A bottom \in {Floor(last'.user_sp) - USER_STACK_SIZE \div PAGE_SIZE} :
           /\ Aligned(last'.user_sp)
           /\ \A i \in DOMAIN last'.elf :
                 Ceil(UsizeAdd(last'.elf[i].virtual_addr, last'.elf[i].mem_size))
                     < bottom
           /\ ~PteIsValid(MmuPte(ptes', root, bottom - 1))
           /\ \A vpn \in bottom .. (top - 1) :
                 PteFlags(MmuPte(ptes', root, vpn)) = PTE_V + PTE_R + PTE_W + PTE_U
           /\ Floor(VirtAddrFrom(TRAP_CONTEXT)) = Floor(VirtAddrFrom(TRAMPOLINE)) - 1
           /\ PteFlags(MmuPte(ptes', root, Floor(VirtAddrFrom(TRAP_CONTEXT))))
                 = PTE_V + PTE_R + PTE_W]_vars

\* from_elf has returned for the file whose segments are in descending
\* order, with the stack below the first segment.
C36_Witness ==
    /\ last.op = "from_elf" /\ ~panicked /\ Len(last.elf) = 2
    /\ last.elf[1].virtual_addr = Va(20, 0)
    /\ Floor(last.user_sp) = 20
    /\ PteIsValid(MmuPte(ptes, memory_set.page_table.root_ppn, 18))

\* from_elf has returned for the file in ascending order with the layout of
\* the claim.
C36_WitnessAscending ==
    /\ last.op = "from_elf" /\ ~panicked /\ last.elf = UserElf
    /\ Floor(last.user_sp) = 21
    /\ ~PteIsValid(MmuPte(ptes, memory_set.page_table.root_ppn, 18))
    /\ PteFlags(MmuPte(ptes, memory_set.page_table.root_ppn, 19))
          = PTE_V + PTE_R + PTE_W + PTE_U

\* from_elf has panicked in map on a stack page that a segment occupies.
C36_WitnessPanic ==
    /\ last.op = "from_elf" /\ panicked
    /\ last.elf[1].virtual_addr = Va(18, 0)

\* Whether the data bitmap db has the bit of the data block block_id.
DataBitSet(db, block_id) ==
    LET d == Decomposition(block_id - DataAreaStart) IN d[3] \in db[d[1]][d[2]]

\* The data blocks the DiskInode at pos references.
BlocksOf(inodes, pos) == {inodes[pos].direct[i] : i \in DOMAIN inodes[pos].direct}

\* C39: after any sequence of create, write_at, linkat and unlink, every
\* data block referenced by an inode of non-zero size has its data-bitmap
\* bit set and is referenced by no other inode; so no unlink trips the
\* assertion of Bitmap::dealloc, and an unlink that returns 0 leaves the
\* content of every other name as it was.
C39_BlockOwnership ==
    /\ [](\A pos \in DOMAIN disk_inodes :
             disk_inodes[pos].size > 0 =>
                 \A b \in BlocksOf(disk_inodes, pos) :
                     /\ DataBitSet(data_bitmap, b)
                     /\ \A other \in DOMAIN disk_inodes \ {pos} :
                            b \notin BlocksOf(disk_inodes, other))
    /\ [][last'.op = "unlinkat" =>
            /\ ~panicked'
            /\ \A n \in Names \ {last'.name} :
                   (Find(FNow, n) # {} /\ last'.ret = {0}) =>
                       /\ Find(FNow, n)' = Find(FNow, n)
                       /\ \A pos \in Find(FNow, n) :
                              Content(FNow, pos)' = Content(FNow, pos)]_vars

\* A file with content was linked under a second name, and the two inodes
\* reference the same data block.
C39_Witness ==
    /\ last.op = "linkat" /\ last.ret = {0}
    /\ last.old # <<>> /\ last.new # <<>>
    /\ \E o \in Find(FNow, last.old), n \in Find(FNow, last.new) :
          /\ o # n
          /\ disk_inodes[o].size > 0
          /\ BlocksOf(disk_inodes, o) # {}
          /\ BlocksOf(disk_inodes, o) = BlocksOf(disk_inodes, n)

\* One name of a linked pair was unlinked: the other name is found, its
\* inode has its size and references a block whose bit is clear.
C39_WitnessDangling ==
    /\ last.op = "unlinkat" /\ last.ret = {0} /\ ~panicked
    /\ \E n \in Names \ {<<>>, last.name} : \E pos \in Find(FNow, n) :
          /\ pos # ROOT_INODE
          /\ disk_inodes[pos].size > 0
          /\ \E b \in BlocksOf(disk_inodes, pos) : ~DataBitSet(data_bitmap, b)

\* The second name of a linked pair was unlinked and the assertion of
\* Bitmap::dealloc failed, after clear_size and before the entry is zeroed.
C39_WitnessDoubleFree ==
    /\ last.op = "unlinkat" /\ panicked
    /\ last.name # <<>> /\ <<>> \notin exist
    /\ \E pos \in Find(FNow, last.name) :
          pos # ROOT_INODE /\ disk_inodes[pos].size = 0

\* A file is created, written and unlinked under a non-empty name.
CycleNames == {<<1>>, <<2>>}
CycleOffsets == {0, BLOCK_SZ - 1}

NextFsCycle ==
    \/ \E name \in CycleNames : CreateOp(name)
    \/ \E inode_id \in 1 .. MaxFiles, offset \in CycleOffsets :
          WriteAtOp(inode_id, offset, <<2, 1>>)
    \/ \E name \in CycleNames : SysUnlinkatOp(name)

SpecFsCycle == InitFs /\ [][NextFsCycle]_vars

\* The data part of C40: the unlink clears the data-bitmap bit of every
\* block of the file and touches no other bit of the data bitmap.
UnlinkFreesData ==
    [][(last'.op = "unlinkat" /\ last'.ret = {0}) =>
          \A pos \in Find(FNow, last'.name) :
              /\ \A b \in BlocksOf(disk_inodes, pos) : ~DataBitSet(data_bitmap', b)
              /\ \A bit \in 0 .. (NBits - 1) :
                     (DataAreaStart + bit) \notin BlocksOf(disk_inodes, pos) =>
                         (BitSet(data_bitmap', bit) <=> BitSet(data_bitmap, bit))]_vars

\* C40: create(name), writes to the file and unlink(name) give back what the
\* file took: the unlink clears the inode-bitmap bit the create set and the
\* data-bitmap bits of the file's blocks, so the inodes in use are the root
\* and one per name in the directory.
C40_ResourceRoundTrip ==
    /\ UnlinkFreesData
    /\ [][(last'.op = "unlinkat" /\ last'.ret = {0}) =>
             \A id \in FindInodeId(blocks, last'.name, DiskInodeAt(FNow, ROOT_INODE)) :
                 /\ BitSet(inode_bitmap, id)
                 /\ ~BitSet(inode_bitmap', id)]_vars
    /\ [](~panicked =>
             Cardinality({id \in 0 .. MaxFiles : BitSet(inode_bitmap, id)})
                 = 1 + Cardinality({n \in CycleNames : Find(FNow, n) # {}}))

\* The first file was unlinked: no data block but the one of the directory
\* is allocated, and its inode is still allocated, with no name in the
\* directory.
C40_Witness ==
    /\ last.op = "unlinkat" /\ last.ret = {0} /\ ~panicked
    /\ \A n \in CycleNames : Find(FNow, n) = {}
    /\ BitSet(inode_bitmap, 1)
    /\ disk_inodes[get_disk_inode_pos(1)].size = 0
    /\ \A bit \in 1 .. (NBits - 1) : ~BitSet(data_bitmap, bit)

\* Both inodes a run may take are allocated and no name is in the
\* directory: no further file can be created.
C40_WitnessExhausted ==
    /\ last.op = "unlinkat" /\ last.ret = {0} /\ ~panicked
    /\ \A n \in CycleNames : Find(FNow, n) = {}
    /\ \A id \in 0 .. MaxFiles : BitSet(inode_bitmap, id)
====
